---- MODULE Spec2Model ----
(***************************************************************************)
(* State-machine model of the GPU particle system: the main-world setup    *)
(* system, the render-world buffer preparation system, and the compute /   *)
(* debug / render graph nodes that record one dispatch sequence per frame. *)
(* The compute kernels themselves (compute_shader.wgsl) are modelled from  *)
(* the design document; everything else follows the Rust sources.          *)
(***************************************************************************)
EXTENDS Integers, Sequences, FiniteSets, TLC

VARIABLES
    phase,                  \* position inside the frame (schedule / node / pass)
    frame,                  \* number of the current frame, from 1
    main_config,            \* ParticleConfig resource of the main world
    setup_ran,              \* Local<bool> of setup_particles
    particle_system,        \* ParticleSystem.particles of the main world, <<>> if not spawned
    extracted,              \* the ParticleSystem entity exists in the render world
    config_changed,         \* main_config was written since the last extraction
    config,                 \* ParticleConfig resource of the render world
    ran,                    \* Local<bool> of prepare_particle_buffers
    pipeline_buffers,       \* the entity carries a GPUPipelineBuffers component
    particle_buffer,        \* GPU: "storage_buffer", particle records
    config_buffer,          \* GPU: "uniform_buffer"
    config_writes,          \* queue.write_buffer calls on config_buffer in this frame
    spatial_lookup,         \* GPU: "grid_metadata_buffer", (key, particleIndex) entries
    spatial_lookup_offsets, \* GPU: "spatial_lookup_offsets_buffer"
    sorting_params_buffer,  \* GPU: "Sorting Params Buffer", byte offset -> record
    pipeline_ready,         \* compute pipelines the PipelineCache has finished
    open_passes,            \* compute passes begun and not yet ended
    pass_dispatches,        \* dispatches recorded in the pass that is open
    stage_index,            \* outer sort loop counter
    step_index,             \* inner sort loop counter
    iteration,              \* sort iteration counter
    frame_log,              \* dispatches recorded in this frame, in order
    sort_input,             \* spatial_lookup as it was when this frame's sort began
    draws,                  \* draw calls recorded in this frame's command buffer
    device_polls,           \* device.poll(Maintain::wait()) calls made in this frame
    camera_ready,           \* the camera's logical viewport size is known
    gui_config,             \* GUIConfig resource of the main world
    gui_changed,            \* GUIConfig was mutably accessed since apply_gui_updates last ran
    update_ran              \* GUI systems that have run in this frame's Update schedule

vars == <<phase, frame, main_config, config_changed, setup_ran, particle_system,
          extracted, config,
          ran, pipeline_buffers, particle_buffer, config_buffer, config_writes,
          spatial_lookup, spatial_lookup_offsets, sorting_params_buffer,
          pipeline_ready, open_passes, pass_dispatches, stage_index, step_index,
          iteration, frame_log, sort_input, draws, device_polls, camera_ready, gui_config,
          gui_changed,
          update_ran>>

(***************************************************************************)
(* Bounds of the model.                                                    *)
(***************************************************************************)
MaxParticles == 5
MaxFrames == 3
MaxKey == 1
FrameDelta == 1
MaxSortParticles == 5
HalfExtent == 2
SmoothingRadius == 2
KeyBits == 16
MaxSliders == 1

(***************************************************************************)
(* Program constants.                                                      *)
(***************************************************************************)
WORKGROUP_SIZE == 64
UNIFORM_ALIGNMENT == 256

\* Unsigned words are kept at KeyBits bits: the same wrap-around and the same
\* all-ones maximum as u32, at a width TLC's integers can hold.
U32 == 2 ^ KeyBits
SentinelKey == U32 - 1

Range(lo, hi) == lo .. (hi - 1)

RECURSIVE NextPow2From(_, _)
NextPow2From(p, x) == IF p >= x THEN p ELSE NextPow2From(2 * p, x)

next_power_of_two(x) == NextPow2From(1, x)

RECURSIVE ilog2(_)
ilog2(x) == IF x <= 1 THEN 0 ELSE 1 + ilog2(x \div 2)

(***************************************************************************)
(* Sort parameters: prepare_particle_buffers, "BITONIC MERGE SORT STUFF".  *)
(***************************************************************************)
num_stages(particle_count) == ilog2(next_power_of_two(particle_count))

\* for stage in 0..num_stages { total_iterations += stage + 1 }
RECURSIVE SumStages(_)
SumStages(stages) == IF stages = 0 THEN 0 ELSE SumStages(stages - 1) + stages

total_iterations(particle_count) == SumStages(num_stages(particle_count))

GroupWidthOnlyStage(stage, step) == 2 ^ stage
\* let group_width = 1 << (stage_index - step_index);
GroupWidth(stage, step) == 2 ^ (stage - step)

GroupHeightHalf(group_width) == group_width - 1
\* let group_height = 2 * group_width - 1;
GroupHeight(group_width) == 2 * group_width - 1

SortingParamsCountAsN(particle_count, stage, step) ==
    [n            |-> particle_count,
     group_width  |-> GroupWidth(stage, step),
     group_height |-> GroupHeight(GroupWidth(stage, step)),
     step_index   |-> step]

\* SortingParams { n: next_pow_2, group_width, group_height, step_index }
SortingParams(particle_count, stage, step) ==
    [n            |-> next_power_of_two(particle_count),
     group_width  |-> GroupWidth(stage, step),
     group_height |-> GroupHeight(GroupWidth(stage, step)),
     step_index   |-> step]

ZeroParams == [n |-> 0, group_width |-> 0, group_height |-> 0, step_index |-> 0]

\* The two nested loops that fill sorting_buffer_data: the record of iteration
\* `it` is written at byte offset it * UNIFORM_ALIGNMENT.
RECURSIVE SortingBufferLoop(_, _, _, _, _)
SortingBufferLoop(particle_count, stage, step, it, data) ==
    IF stage >= num_stages(particle_count) THEN data
    ELSE IF step > stage
         THEN SortingBufferLoop(particle_count, stage + 1, 0, it, data)
         ELSE SortingBufferLoop(particle_count, stage, step + 1, it + 1,
                  (it * UNIFORM_ALIGNMENT :> SortingParams(particle_count, stage, step))
                      @@ data)

sorting_buffer_data(particle_count) == SortingBufferLoop(particle_count, 0, 0, 0, <<>>)

\* std::mem::size_of::<SortingParams>(): four u32 fields.
SizeOfSortingParams == 16

UnalignedSize == SizeOfSortingParams
\* The size of one record rounded up to the uniform alignment.
aligned_size ==
    ((SizeOfSortingParams + UNIFORM_ALIGNMENT - 1) \div UNIFORM_ALIGNMENT) * UNIFORM_ALIGNMENT

\* The size in bytes that sorting_params_buffer is created with.
SortingParamsBufferSize(particle_count) == total_iterations(particle_count) * aligned_size

\* The uniform binding of binding 2 at a dynamic offset; a range outside the
\* buffer reads as zeros.
ParamsAt(buffer, dynamic_offset) ==
    IF dynamic_offset \in DOMAIN buffer THEN buffer[dynamic_offset] ELSE ZeroParams

(***************************************************************************)
(* Dispatch sizes: ParticleComputeNode::run.                               *)
(***************************************************************************)
WorkgroupsRoundedDown(count) == count \div WORKGROUP_SIZE
WorkgroupsOneTooMany(count) == (count + WORKGROUP_SIZE) \div WORKGROUP_SIZE
\* (count + WORKGROUP_SIZE - 1) / WORKGROUP_SIZE
Workgroups(count) == (count + WORKGROUP_SIZE - 1) \div WORKGROUP_SIZE

\* let num_pairs = next_pow_2 / 2;
num_pairs(particle_count) == next_power_of_two(particle_count) \div 2

Threads(workgroups) == Range(0, workgroups * WORKGROUP_SIZE)

InnerStepsExclusive(stage) == stage
InnerStepsOneMore(stage) == stage + 2
\* for _ in 0..=stage_index
InnerSteps(stage) == stage + 1

(***************************************************************************)
(* The compute kernels (entry points of compute_shader.wgsl), modelled     *)
(* from the design document.  A kernel is a function of the thread id; the *)
(* effect of a dispatch is the set of buffer contents its threads can      *)
(* leave behind.                                                           *)
(***************************************************************************)
ZeroEntry == [key |-> 0, particleIndex |-> 0]
PaddingEntry == [key |-> SentinelKey, particleIndex |-> SentinelKey]

\* All functions over 0..len-1 that pick, at each index, one of cand[index].
RECURSIVE ChoicesUpTo(_, _)
ChoicesUpTo(cand, len) ==
    IF len = 0 THEN {<<>>}
    ELSE {Append(s, c) : s \in ChoicesUpTo(cand, len - 1), c \in cand[len - 1]}

Choices(cand, len) == {[i \in Range(0, len) |-> s[i + 1]] : s \in ChoicesUpTo(cand, len)}

\* floor(x / radius), also for negative coordinates.
CellCoord(x, radius) == x \div radius

\* Fixed prime multiply-add hash of the two cell coordinates, wrapping.
HashCell(cx, cy) == (((cx % U32) * 73) + ((cy % U32) * 179)) % U32

\* The key of a position: the hash folded into the offset table.
CellKey(position, radius, table_size) ==
    HashCell(CellCoord(position[1], radius), CellCoord(position[2], radius)) % table_size

\* bin_particles_in_grid: thread id writes the entry of particle id, one entry
\* per particle; a thread past the last particle writes nothing, so the
\* padding tail keeps what its one-time fill left there.
bin_particles_in_grid(threads, particles, radius, lookup) ==
    [i \in DOMAIN lookup |->
        IF i \in threads /\ i \in DOMAIN particles
        THEN [key |-> CellKey(particles[i].position, radius,
                              Cardinality(DOMAIN particles)),
              particleIndex |-> i]
        ELSE lookup[i]]

\* sort_particles: the pair of lookup indices thread i compares, <<>> if none.
SortPair(params, i) ==
    IF params.group_width = 0 THEN <<>>
    ELSE LET h_index   == i % params.group_width
             indexLeft == h_index + (params.group_height + 1) * (i \div params.group_width)
             rightStep == IF params.step_index = 0
                          THEN (params.group_height - 2 * h_index) % U32
                          ELSE (params.group_height + 1) \div 2
             indexRight == (indexLeft + rightStep) % U32
         IN  IF indexRight >= params.n THEN <<>> ELSE <<indexLeft, indexRight>>

\* The pairs whose thread exchanges its two entries: the left key is the larger.
SwappingPairs(threads, params, lookup) ==
    {p \in {SortPair(params, i) : i \in threads} \ {<<>>} :
        /\ p[1] \in DOMAIN lookup
        /\ p[2] \in DOMAIN lookup
        /\ lookup[p[1]].key > lookup[p[2]].key}

\* What index idx can hold after the dispatch: every thread reads the array as
\* the previous dispatch left it; an index written by no thread keeps its entry.
SortWrites(swapping, lookup, idx) ==
    {lookup[p[2]] : p \in {q \in swapping : q[1] = idx}}
    \cup {lookup[p[1]] : p \in {q \in swapping : q[2] = idx}}

sort_particles(threads, params, lookup) ==
    LET swapping == SwappingPairs(threads, params, lookup)
    IN  Choices([idx \in DOMAIN lookup |->
                    IF SortWrites(swapping, lookup, idx) = {}
                    THEN {lookup[idx]}
                    ELSE SortWrites(swapping, lookup, idx)],
                Cardinality(DOMAIN lookup))

\* calculate_spatial_lookup_offsets: the table is cleared to the sentinel at
\* the start of the pass; thread i writes offsets[key[i]] = i when entry i is
\* the first of its key.
FirstOfKey(lookup, i) == i = 0 \/ lookup[i].key # lookup[i - 1].key

OffsetWrites(threads, lookup, k) ==
    {i \in threads \cap DOMAIN lookup : lookup[i].key = k /\ FirstOfKey(lookup, i)}

calculate_spatial_lookup_offsets(threads, lookup, offsets) ==
    Choices([k \in DOMAIN offsets |->
                IF OffsetWrites(threads, lookup, k) # {}
                THEN OffsetWrites(threads, lookup, k)
                ELSE IF k \in threads THEN {SentinelKey} ELSE {offsets[k]}],
            Cardinality(DOMAIN offsets))

\* Squared distance of two points.
Dist2(a, b) == (a[1] - b[1]) * (a[1] - b[1]) + (a[2] - b[2]) * (a[2] - b[2])

\* Polynomial falloff of the density kernel, in squared distances: radius^2 at
\* distance zero, zero at the radius and beyond.
DensityKernel(d2, radius) == IF d2 < radius * radius THEN radius * radius - d2 ELSE 0

\* The steeper falloff of the near-density kernel.
NearDensityKernel(d2, radius) == DensityKernel(d2, radius) * DensityKernel(d2, radius)

\* The keys of the 3x3 block of cells around the cell of `position`.
NeighborKeys(position, radius, table_size) ==
    {HashCell(CellCoord(position[1], radius) + dx, CellCoord(position[2], radius) + dy)
         % table_size : dx \in -1 .. 1, dy \in -1 .. 1}

\* The lookup indices of the run of `key` that starts at index i.
RECURSIVE KeyRun(_, _, _)
KeyRun(lookup, key, i) ==
    IF i \notin DOMAIN lookup \/ lookup[i].key # key THEN {}
    ELSE {i} \cup KeyRun(lookup, key, i + 1)

\* The lookup indices a scan of one cell enumerates: none if the cell's slot
\* of the offset table holds the sentinel, else the run that starts there.
CellEntries(lookup, offsets, key) ==
    IF key \notin DOMAIN offsets \/ offsets[key] = SentinelKey THEN {}
    ELSE KeyRun(lookup, key, offsets[key])

\* The lookup indices a scan of the 3x3 neighborhood of `position` enumerates.
NeighborEntries(position, radius, lookup, offsets) ==
    UNION {CellEntries(lookup, offsets, key) :
               key \in NeighborKeys(position, radius, Cardinality(DOMAIN offsets))}

RECURSIVE SumOver(_, _)
SumOver(indexes, term) ==
    IF indexes = {} THEN 0
    ELSE LET i == CHOOSE j \in indexes : TRUE
         IN  term[i] + SumOver(indexes \ {i}, term)

\* The density of particle p: the kernel summed over the enumerated entries.
Density(p, particles, radius, lookup, offsets) ==
    LET entries == NeighborEntries(particles[p].position, radius, lookup, offsets)
    IN  SumOver(entries,
                [i \in entries |->
                    IF lookup[i].particleIndex \in DOMAIN particles
                    THEN DensityKernel(Dist2(particles[p].position,
                                             particles[lookup[i].particleIndex].position),
                                       radius)
                    ELSE 0])

NearDensity(p, particles, radius, lookup, offsets) ==
    LET entries == NeighborEntries(particles[p].position, radius, lookup, offsets)
    IN  SumOver(entries,
                [i \in entries |->
                    IF lookup[i].particleIndex \in DOMAIN particles
                    THEN NearDensityKernel(Dist2(particles[p].position,
                                                 particles[lookup[i].particleIndex].position),
                                           radius)
                    ELSE 0])

\* What thread p of pre_simulation_step writes into the record of particle p.
Predicted(p, particles, lookup, offsets, cfg) ==
    [particles[p] EXCEPT
        !.predicted = <<particles[p].position[1]
                            + particles[p].velocity[1] * cfg.fixed_delta_time,
                        particles[p].position[2]
                            + particles[p].velocity[2] * cfg.fixed_delta_time>>,
        !.density = Density(p, particles, cfg.smoothing_radius, lookup, offsets),
        !.near_density = NearDensity(p, particles, cfg.smoothing_radius, lookup, offsets)]

\* Thread id writes into the record that follows its own.
pre_simulation_step_next_record(threads, particles, lookup, offsets, cfg) ==
    [j \in DOMAIN particles |->
        LET i == (j - 1) % Cardinality(DOMAIN particles)
        IN  IF i \notin threads THEN particles[j]
            ELSE [particles[j] EXCEPT
                     !.predicted = Predicted(i, particles, lookup, offsets, cfg).predicted]]

\* pre_simulation_step: thread id writes the predicted position and the
\* densities of particle id.
pre_simulation_step(threads, particles, lookup, offsets, cfg) ==
    [i \in DOMAIN particles |->
        IF i \notin threads THEN particles[i]
        ELSE Predicted(i, particles, lookup, offsets, cfg)]

Sgn(x) == IF x > 0 THEN 1 ELSE IF x < 0 THEN -1 ELSE 0

Abs(x) == IF x < 0 THEN -x ELSE x

\* Pressure on particle p along coordinate c: a push away from every other
\* enumerated particle within the radius, scaled by pressure_multiplier.
Pressure(p, c, particles, lookup, offsets, cfg) ==
    LET entries == NeighborEntries(particles[p].position, cfg.smoothing_radius,
                                   lookup, offsets)
    IN  cfg.pressure_multiplier *
        SumOver(entries,
                [i \in entries |->
                    IF /\ lookup[i].particleIndex \in DOMAIN particles
                       /\ lookup[i].particleIndex # p
                       /\ Dist2(particles[p].predicted,
                                particles[lookup[i].particleIndex].predicted)
                              < cfg.smoothing_radius * cfg.smoothing_radius
                    THEN Sgn(particles[p].predicted[c]
                                 - particles[lookup[i].particleIndex].predicted[c])
                    ELSE 0])

\* velocity += acceleration * fixed_delta_time, gravity pointing down.
Accelerate(p, particles, lookup, offsets, cfg) ==
    <<particles[p].velocity[1]
          + Pressure(p, 1, particles, lookup, offsets, cfg) * cfg.fixed_delta_time,
      particles[p].velocity[2]
          + (Pressure(p, 2, particles, lookup, offsets, cfg) - cfg.gravity)
                * cfg.fixed_delta_time>>

\* The energy clamp: if 0.5 * |v|^2 > max_energy the velocity is rescaled, each
\* component rounded toward zero, so that the energy does not exceed
\* max_energy.
ClampEnergy(v, max_energy) ==
    LET v2 == v[1] * v[1] + v[2] * v[2]
        Shrink(c) ==
            Sgn(c) * (CHOOSE k \in 0 .. Abs(c) :
                         /\ k * k * v2 <= c * c * 2 * max_energy
                         /\ \A m \in 0 .. Abs(c) :
                              m * m * v2 <= c * c * 2 * max_energy => m <= k)
    IN  IF v2 <= 2 * max_energy THEN v ELSE <<Shrink(v[1]), Shrink(v[2])>>

\* One coordinate of the integration with boundary handling: the position is
\* clamped to the bound it crossed and the velocity component is negated.
Integrate(x, v, dt, lo, hi) ==
    IF x + v * dt < lo THEN <<lo, -v>>
    ELSE IF x + v * dt > hi THEN <<hi, -v>>
    ELSE <<x + v * dt, v>>

\* What thread p of simulation_step writes into the record of particle p.
Integrated(p, particles, lookup, offsets, cfg) ==
    LET v  == ClampEnergy(Accelerate(p, particles, lookup, offsets, cfg), cfg.max_energy)
        ix == Integrate(particles[p].position[1], v[1], cfg.fixed_delta_time,
                        cfg.screen_bounds[1], cfg.screen_bounds[2])
        iy == Integrate(particles[p].position[2], v[2], cfg.fixed_delta_time,
                        cfg.screen_bounds[3], cfg.screen_bounds[4])
    IN  [particles[p] EXCEPT !.position = <<ix[1], iy[1]>>,
                             !.velocity = <<ix[2], iy[2]>>]

\* simulation_step: thread id integrates particle id.
simulation_step(threads, particles, lookup, offsets, cfg) ==
    [i \in DOMAIN particles |->
        IF i \notin threads THEN particles[i]
        ELSE Integrated(i, particles, lookup, offsets, cfg)]

(***************************************************************************)
(* The main world: main() and setup_particles.                             *)
(***************************************************************************)
FixedDeltaTime == 1
MaxEnergy == 2

\* Velocities the seeding routine can draw.
InitVelocities == {<<-1, 1>>, <<2, 1>>}

get_screen_bounds_swapped == <<HalfExtent, -HalfExtent, HalfExtent, -HalfExtent>>

\* get_screen_bounds: centre -/+ half of the viewport, camera at the origin.
get_screen_bounds == <<-HalfExtent, HalfExtent, -HalfExtent, HalfExtent>>

guiVars == <<gui_config, gui_changed, update_ran>>

\* The nine fields of GUIConfig that the sliders edit.
Tunables == {"fixed_delta_time", "gravity", "damping_factor", "smoothing_radius",
             "max_energy", "target_density", "pressure_multiplier",
             "viscocity_strength", "near_density_multiplier"}

\* The values the session starts with.
InitialTunable(t) ==
    CASE t = "fixed_delta_time" -> FixedDeltaTime
      [] t = "smoothing_radius" -> SmoothingRadius
      [] t = "max_energy" -> MaxEnergy
      [] OTHER -> 0

InitialGUIConfig ==
    [t \in Tunables \cup {"applied_changes"} |->
        IF t = "applied_changes" THEN FALSE ELSE InitialTunable(t)]

InitialConfig(count) ==
    [t \in Tunables \cup {"particle_count", "delta_time", "frame_count", "screen_bounds"} |->
        CASE t = "particle_count" -> count
          [] t = "delta_time" -> 0
          [] t = "frame_count" -> 0
          [] t = "screen_bounds" -> <<0, 0, 0, 0>>
          [] OTHER -> InitialTunable(t)]

\* A uniform buffer as create_buffer leaves it: all bytes zero.
ZeroConfig ==
    [t \in DOMAIN InitialConfig(0) |-> IF t = "screen_bounds" THEN <<0, 0, 0, 0>> ELSE 0]

SeedParticle(velocity) ==
    [position |-> <<0, 0>>, velocity |-> velocity, predicted |-> <<0, 0>>,
     density |-> 0, near_density |-> 0]

Stages == {"grid", "sort", "offsets", "pre_sim", "sim"}

Init ==
    /\ phase = "Update"
    /\ frame = 1
    /\ \E count \in 1 .. MaxParticles : main_config = InitialConfig(count)
    /\ config_changed = TRUE
    /\ setup_ran = FALSE
    /\ particle_system = <<>>
    /\ extracted = FALSE
    /\ config = main_config
    /\ ran = FALSE
    /\ pipeline_buffers = FALSE
    /\ particle_buffer = <<>>
    /\ config_buffer = [exists |-> FALSE, written |-> FALSE, data |-> ZeroConfig]
    /\ config_writes = 0
    /\ spatial_lookup = <<>>
    /\ spatial_lookup_offsets = <<>>
    /\ sorting_params_buffer = <<>>
    /\ pipeline_ready = {}
    /\ open_passes = 0
    /\ pass_dispatches = 0
    /\ stage_index = 0
    /\ step_index = 0
    /\ iteration = 0
    /\ frame_log = <<>>
    /\ sort_input = <<>>
    /\ draws = <<>>
    /\ device_polls = 0
    /\ camera_ready \in BOOLEAN
    /\ gui_config = InitialGUIConfig
    /\ gui_changed = TRUE
    /\ update_ran = {}

total_particles_one_less == main_config.particle_count - 1

\* let total_particles = particle_config.particle_count;
total_particles == main_config.particle_count

SetupNotRanIgnored == TRUE

\* if !*ran, on the Local<bool> of setup_particles
SetupNotRan == ~setup_ran

\* setup_particles, run by the Update schedule of every frame.
setup_particles ==
    /\ phase = "Update"
    /\ phase' = "Extract"
    /\ setup_ran' = TRUE
    /\ IF SetupNotRan /\ camera_ready
       THEN /\ main_config' = [main_config EXCEPT !.screen_bounds = get_screen_bounds]
            /\ config_changed' = TRUE
            /\ \E velocities \in [Range(0, total_particles) -> InitVelocities] :
                 particle_system' =
                     [i \in Range(0, total_particles) |-> SeedParticle(velocities[i])]
       ELSE UNCHANGED <<main_config, config_changed, particle_system>>
    /\ UNCHANGED <<frame, extracted, config, ran, pipeline_buffers, particle_buffer,
                   config_buffer, config_writes, spatial_lookup, spatial_lookup_offsets,
                   sorting_params_buffer, pipeline_ready, open_passes, pass_dispatches,
                   stage_index, step_index, iteration, frame_log, sort_input, draws, device_polls,
                   camera_ready, guiVars>>

(***************************************************************************)
(* The parameter overlay: gui_system and apply_gui_updates.                *)
(***************************************************************************)
\* The sliders in the order gui_system adds them to the window.
Sliders == <<"fixed_delta_time", "gravity", "damping_factor", "smoothing_radius",
             "max_energy", "target_density", "pressure_multiplier",
             "viscocity_strength", "near_density_multiplier">>

\* The sliders the user of the model drags: the last MaxSliders of the window.
DraggedSliders == {Sliders[i] : i \in (Len(Sliders) - MaxSliders + 1) .. Len(Sliders)}

\* A slider of the model has two positions: the initial value and the next one.
SliderMoved(t, value) == IF value = InitialTunable(t) THEN InitialTunable(t) + 1
                         ELSE InitialTunable(t)

AppliedChangesOverwritten(flag, changed) == changed

\* if changed { gui_config.applied_changes = true; }
AppliedChanges(flag, changed) == flag \/ changed

\* gui_system: when the window is shown every slider borrows its field
\* mutably; at most one slider is dragged per frame, which sets applied_changes.
GuiSystemRun(dragged) ==
    /\ phase = "Update"
    /\ "gui_system" \notin update_ran
    /\ update_ran' = update_ran \cup {"gui_system"}
    /\ \E shown \in BOOLEAN :
         IF ~shown
         THEN UNCHANGED <<gui_config, gui_changed>>
         ELSE /\ gui_changed' = TRUE
              /\ \E moved \in {{}} \cup {{t} : t \in dragged} :
                   gui_config' =
                       [t \in DOMAIN gui_config |->
                           IF t \in moved THEN SliderMoved(t, gui_config[t])
                           ELSE IF t = "applied_changes"
                                THEN AppliedChanges(gui_config.applied_changes,
                                                    moved # {})
                                ELSE gui_config[t]]
    /\ UNCHANGED <<phase, frame, main_config, config_changed, setup_ran, particle_system,
                   extracted, config, ran, pipeline_buffers, particle_buffer, config_buffer,
                   config_writes, spatial_lookup, spatial_lookup_offsets,
                   sorting_params_buffer, pipeline_ready, open_passes, pass_dispatches,
                   stage_index, step_index, iteration, frame_log, sort_input, draws, device_polls,
                   camera_ready>>

gui_system == GuiSystemRun(DraggedSliders)

ApplyTunablesButGravity(sim_config, gui) ==
    [t \in DOMAIN sim_config |->
        IF t \in Tunables \ {"gravity"} THEN gui[t] ELSE sim_config[t]]

ApplyTunablesToDefault(sim_config, gui) ==
    [t \in DOMAIN sim_config |->
        IF t \in Tunables THEN gui[t]
        ELSE IF t = "screen_bounds" THEN <<0, 0, 0, 0>> ELSE 0]

\* sim_config.<tunable> = gui_config.<tunable>, for the nine tunables.
ApplyTunables(sim_config, gui) ==
    [t \in DOMAIN sim_config |-> IF t \in Tunables THEN gui[t] ELSE sim_config[t]]

\* apply_gui_updates: is_changed() compares with this system's previous run.
apply_gui_updates ==
    /\ phase = "Update"
    /\ "apply_gui_updates" \notin update_ran
    /\ update_ran' = update_ran \cup {"apply_gui_updates"}
    /\ gui_changed' = FALSE
    /\ IF gui_config.applied_changes /\ gui_changed
       THEN /\ main_config' = ApplyTunables(main_config, gui_config)
            /\ config_changed' = TRUE
            /\ gui_config' = [gui_config EXCEPT !.applied_changes = FALSE]
       ELSE UNCHANGED <<main_config, config_changed, gui_config>>
    /\ UNCHANGED <<phase, frame, setup_ran, particle_system, extracted, config, ran,
                   pipeline_buffers, particle_buffer, config_buffer, config_writes,
                   spatial_lookup, spatial_lookup_offsets, sorting_params_buffer,
                   pipeline_ready, open_passes, pass_dispatches, stage_index, step_index,
                   iteration, frame_log, sort_input, draws, device_polls,
                   camera_ready>>

(***************************************************************************)
(* The render world: extraction and prepare_particle_buffers.              *)
(***************************************************************************)
\* ExtractComponentPlugin<ParticleSystem> and ExtractResourcePlugin<ParticleConfig>:
\* the resource is copied when the main-world resource has changed.
Extract ==
    /\ phase = "Extract"
    /\ phase' = "Prepare"
    /\ extracted' = (particle_system # <<>>)
    /\ config' = IF config_changed THEN main_config ELSE config
    /\ config_changed' = FALSE
    /\ UNCHANGED <<frame, main_config, setup_ran, particle_system, ran, pipeline_buffers,
                   particle_buffer, config_buffer, config_writes, spatial_lookup,
                   spatial_lookup_offsets, sorting_params_buffer, pipeline_ready,
                   open_passes, pass_dispatches, stage_index, step_index, iteration,
                   frame_log, sort_input, draws, device_polls,
                   camera_ready, guiVars>>

\* create_buffer without contents: a zero-filled buffer of `len` elements.
ZeroBuffer(len, zero) == [i \in Range(0, len) |-> zero]

PrepareNotRanIgnored == TRUE

\* if !*ran, on the Local<bool> of prepare_particle_buffers
PrepareNotRan == ~ran

prepare_particle_buffers ==
    /\ phase = "Prepare"
    /\ phase' = "Queue"
    /\ ran' = TRUE
    /\ LET delta == FrameDelta IN
         IF PrepareNotRan
         THEN /\ config' = [config EXCEPT !.delta_time = delta]
              /\ config_writes' = config_writes
              /\ IF extracted
                 THEN /\ particle_buffer' = particle_system
                      /\ config_buffer' = [exists |-> TRUE, written |-> FALSE, data |-> ZeroConfig]
                      /\ spatial_lookup' =
                             ZeroBuffer(next_power_of_two(config.particle_count), ZeroEntry)
                      /\ sorting_params_buffer' = sorting_buffer_data(config.particle_count)
                      /\ spatial_lookup_offsets' = ZeroBuffer(config.particle_count, 0)
                      /\ pipeline_buffers' = TRUE
                 ELSE UNCHANGED <<particle_buffer, config_buffer, spatial_lookup,
                                  sorting_params_buffer, spatial_lookup_offsets,
                                  pipeline_buffers>>
         ELSE /\ config' = [config EXCEPT !.delta_time = delta,
                                          !.frame_count = config.frame_count + 1]
              /\ IF pipeline_buffers
                 THEN /\ config_buffer' = [exists |-> TRUE, written |-> TRUE, data |-> config']
                      /\ config_writes' = config_writes + 1
                 ELSE UNCHANGED <<config_buffer, config_writes>>
              /\ UNCHANGED <<particle_buffer, spatial_lookup, sorting_params_buffer,
                             spatial_lookup_offsets, pipeline_buffers>>
    /\ UNCHANGED <<frame, main_config, config_changed, setup_ran, particle_system, extracted,
                   pipeline_ready, open_passes, pass_dispatches, stage_index, step_index,
                   iteration, frame_log, sort_input, draws, device_polls,
                   camera_ready, guiVars>>

\* The render node ordered before the compute node.
RenderNodeFirst(node) ==
    CASE node = "Queue" -> "Render"
      [] node = "Render" -> "Compute"
      [] node = "Compute" -> "Debug"
      [] node = "Debug" -> "FrameEnd"

\* The order the render graph runs the three nodes in: the edges
\* compute -> debug and debug -> render, render before the camera driver.
NextNode(node) ==
    CASE node = "Queue" -> "Compute"
      [] node = "Compute" -> "Debug"
      [] node = "Debug" -> "Render"
      [] node = "Render" -> "FrameEnd"

\* PipelineCache: each of the five queued compute pipelines becomes available
\* in some frame, independently of the others, and stays available.
process_pipeline_queue ==
    /\ phase = "Queue"
    /\ phase' = NextNode("Queue")
    /\ \E finished \in SUBSET Stages : pipeline_ready' = pipeline_ready \cup finished
    /\ UNCHANGED <<frame, main_config, config_changed, setup_ran, particle_system, extracted,
                   config, ran, pipeline_buffers, particle_buffer, config_buffer,
                   config_writes, spatial_lookup, spatial_lookup_offsets,
                   sorting_params_buffer, open_passes, pass_dispatches, stage_index,
                   step_index, iteration, frame_log, sort_input, draws, device_polls,
                   camera_ready, guiVars>>

(***************************************************************************)
(* ParticleComputeNode::run, one action per recorded command.              *)
(***************************************************************************)
worldVars == <<frame, main_config, config_changed, setup_ran, particle_system, extracted,
               config, ran, pipeline_buffers, config_buffer, config_writes,
               sorting_params_buffer, pipeline_ready, camera_ready, guiVars>>
loopVars == <<stage_index, step_index, iteration>>
ghostVars == <<sort_input>>
renderVars == <<draws, device_polls>>

PassKept(open) == open
\* `pass` goes out of scope at the end of its block, which ends the pass.
PassDropped(open) == open - 1

Dispatch(entry_point, workgroups, dynamic_offset) ==
    [entry_point    |-> entry_point,
     workgroups     |-> workgroups,
     dynamic_offset |-> dynamic_offset,
     stage          |-> stage_index,
     step           |-> step_index,
     open_passes    |-> open_passes]

Record(dispatch) ==
    /\ frame_log' = Append(frame_log, dispatch)
    /\ pass_dispatches' = pass_dispatches + 1

\* begin_compute_pass(&ComputePassDescriptor::default())
BeginPass(here, next) ==
    /\ phase = here
    /\ phase' = next
    /\ open_passes' = open_passes + 1
    /\ pass_dispatches' = 0
    /\ UNCHANGED <<worldVars, renderVars, loopVars, ghostVars, particle_buffer, spatial_lookup,
                   spatial_lookup_offsets, frame_log>>

EndPass(here, next) ==
    /\ phase = here
    /\ phase' = next
    /\ open_passes' = PassDropped(open_passes)
    /\ UNCHANGED <<worldVars, renderVars, loopVars, ghostVars, particle_buffer, spatial_lookup,
                   spatial_lookup_offsets, frame_log, pass_dispatches>>

HasParticleSystem == extracted

\* for entity in self.particle_system.iter_manual(world) {
\*     if let Some(pipeline_buffers) = world.get::<GPUPipelineBuffers>(entity)
HasPipelineBuffers == extracted /\ pipeline_buffers

ComputeNodeRun ==
    /\ phase = "Compute"
    /\ phase' = IF HasPipelineBuffers THEN "BinBegin" ELSE NextNode("Compute")
    /\ UNCHANGED <<worldVars, renderVars, loopVars, ghostVars, particle_buffer, spatial_lookup,
                   spatial_lookup_offsets, frame_log, open_passes, pass_dispatches>>

\* Pass 1: assign particles to cells in uniform grid
BinBegin == BeginPass("BinBegin", "BinDispatch")

BinDispatch ==
    /\ phase = "BinDispatch"
    /\ phase' = "BinEnd"
    /\ IF "grid" \in pipeline_ready
       THEN /\ Record(Dispatch("bin_particles_in_grid", Workgroups(config.particle_count), 0))
            /\ spatial_lookup' = bin_particles_in_grid(
                                     Threads(Workgroups(config.particle_count)),
                                     particle_buffer, config.smoothing_radius,
                                     spatial_lookup)
       ELSE UNCHANGED <<frame_log, pass_dispatches, spatial_lookup>>
    /\ UNCHANGED <<worldVars, renderVars, loopVars, sort_input, particle_buffer,
                   spatial_lookup_offsets, open_passes>>

BinEnd == EndPass("BinEnd", "SortCheck")

\* Pass 2: sort particles by grid cell key
SortCheck ==
    /\ phase = "SortCheck"
    /\ IF "sort" \in pipeline_ready
       THEN /\ phase' = "SortLoop"
            /\ stage_index' = 0
            /\ step_index' = 0
            /\ iteration' = 0
            /\ sort_input' = spatial_lookup
       ELSE /\ phase' = "OffBegin"
            /\ UNCHANGED <<loopVars, sort_input>>
    /\ UNCHANGED <<worldVars, renderVars, particle_buffer, spatial_lookup,
                   spatial_lookup_offsets, frame_log, open_passes, pass_dispatches>>

\* The heads of the two nested loops and the begin_compute_pass of the body.
SortLoop ==
    /\ phase = "SortLoop"
    /\ IF stage_index >= num_stages(config.particle_count)
       THEN /\ phase' = "OffBegin"
            /\ UNCHANGED <<loopVars, open_passes, pass_dispatches>>
       ELSE IF step_index >= InnerSteps(stage_index)
            THEN /\ phase' = "SortLoop"
                 /\ stage_index' = stage_index + 1
                 /\ step_index' = 0
                 /\ UNCHANGED <<iteration, open_passes, pass_dispatches>>
            ELSE /\ phase' = "SortDispatch"
                 /\ open_passes' = open_passes + 1
                 /\ pass_dispatches' = 0
                 /\ UNCHANGED loopVars
    /\ UNCHANGED <<worldVars, renderVars, ghostVars, particle_buffer, spatial_lookup,
                   spatial_lookup_offsets, frame_log>>

SortDispatch ==
    /\ phase = "SortDispatch"
    /\ phase' = "SortEnd"
    /\ Record(Dispatch("sort_particles", Workgroups(num_pairs(config.particle_count)),
                       iteration * UNIFORM_ALIGNMENT))
    /\ \E result \in sort_particles(
                         Threads(Workgroups(num_pairs(config.particle_count))),
                         ParamsAt(sorting_params_buffer, iteration * UNIFORM_ALIGNMENT),
                         spatial_lookup) :
         spatial_lookup' = result
    /\ UNCHANGED <<worldVars, renderVars, loopVars, ghostVars, particle_buffer, spatial_lookup_offsets,
                   open_passes>>

\* Pass is dropped here; iteration += 1
SortEnd ==
    /\ phase = "SortEnd"
    /\ phase' = "SortLoop"
    /\ open_passes' = PassDropped(open_passes)
    /\ iteration' = iteration + 1
    /\ step_index' = step_index + 1
    /\ UNCHANGED <<worldVars, renderVars, ghostVars, stage_index, particle_buffer, spatial_lookup,
                   spatial_lookup_offsets, frame_log, pass_dispatches>>

\* Pass 3: Calculate grid start idxs
OffBegin == BeginPass("OffBegin", "OffDispatch")

OffDispatch ==
    /\ phase = "OffDispatch"
    /\ phase' = "OffEnd"
    /\ IF "offsets" \in pipeline_ready
       THEN /\ Record(Dispatch("calculate_spatial_lookup_offsets",
                               Workgroups(config.particle_count), 0))
            /\ \E result \in calculate_spatial_lookup_offsets(
                                 Threads(Workgroups(config.particle_count)),
                                 spatial_lookup, spatial_lookup_offsets) :
                 spatial_lookup_offsets' = result
       ELSE UNCHANGED <<frame_log, pass_dispatches, spatial_lookup_offsets>>
    /\ UNCHANGED <<worldVars, renderVars, loopVars, sort_input, particle_buffer, spatial_lookup,
                   open_passes>>

OffEnd == EndPass("OffEnd", "PreBegin")

\* Pass 4: update predicted positions and particle densities
PreBegin == BeginPass("PreBegin", "PreDispatch")

PreDispatch ==
    /\ phase = "PreDispatch"
    /\ phase' = "PreEnd"
    /\ IF "pre_sim" \in pipeline_ready
       THEN /\ Record(Dispatch("pre_simulation_step", Workgroups(config.particle_count), 0))
            /\ particle_buffer' = pre_simulation_step(
                                      Threads(Workgroups(config.particle_count)),
                                      particle_buffer, spatial_lookup,
                                      spatial_lookup_offsets, config)
       ELSE UNCHANGED <<frame_log, pass_dispatches, particle_buffer>>
    /\ UNCHANGED <<worldVars, renderVars, loopVars, ghostVars, spatial_lookup, spatial_lookup_offsets,
                   open_passes>>

PreEnd == EndPass("PreEnd", "SimBegin")

\* Pass 5: integrate particle dynamics
SimBegin == BeginPass("SimBegin", "SimDispatch")

SimDispatch ==
    /\ phase = "SimDispatch"
    /\ phase' = "SimEnd"
    /\ IF "sim" \in pipeline_ready
       THEN /\ Record(Dispatch("simulation_step", Workgroups(config.particle_count), 0))
            /\ particle_buffer' = simulation_step(
                                      Threads(Workgroups(config.particle_count)),
                                      particle_buffer, spatial_lookup,
                                      spatial_lookup_offsets, config)
       ELSE UNCHANGED <<frame_log, pass_dispatches, particle_buffer>>
    /\ UNCHANGED <<worldVars, renderVars, loopVars, ghostVars, spatial_lookup, spatial_lookup_offsets,
                   open_passes>>

SimEnd == EndPass("SimEnd", NextNode("Compute"))

(***************************************************************************)
(* ParticleDebugNode::run and ParticleRenderNode::run, then the next frame.*)
(***************************************************************************)
DEBUG == FALSE

\* read_spatial_lookup_buffer_from_gpu, read_grid_start_idxs_from_gpu and
\* read_particle_densities_from_gpu: each copies the buffer to a staging buffer
\* with an encoder of its own, submits it, maps the staging buffer and blocks in
\* device.poll(Maintain::wait()) until the GPU has finished.
read_buffer_from_gpu(polls) == polls + 1

\* The debug node with the three read-backs of its commented-out body.
DebugNodeRunReadingBack ==
    /\ phase = "Debug"
    /\ phase' = NextNode("Debug")
    /\ device_polls' = IF extracted /\ pipeline_buffers
                       THEN read_buffer_from_gpu(read_buffer_from_gpu(
                                read_buffer_from_gpu(device_polls)))
                       ELSE device_polls
    /\ UNCHANGED <<worldVars, draws, loopVars, ghostVars, particle_buffer, spatial_lookup,
                   spatial_lookup_offsets, frame_log, open_passes, pass_dispatches>>

\* if DEBUG { every statement of the block is commented out } Ok(())
DebugNodeRun ==
    /\ phase = "Debug"
    /\ phase' = NextNode("Debug")
    /\ device_polls' = IF DEBUG THEN device_polls ELSE device_polls
    /\ UNCHANGED <<worldVars, draws, loopVars, ghostVars, particle_buffer, spatial_lookup,
                   spatial_lookup_offsets, frame_log, open_passes, pass_dispatches>>

\* render_pass.set_bind_group(0, &render_pipeline_buffers.bind_group, &[0]);
\* render_pass.draw(0..6, 0..config.particle_count as u32)
Draw(instances) ==
    [vertices |-> 6, instances |-> instances, dynamic_offset |-> 0,
     dispatches_before |-> Len(frame_log)]

\* The draw is recorded if the render pipeline is available in this frame and
\* the entity carries its buffers.
RenderNodeRun ==
    /\ phase = "Render"
    /\ phase' = NextNode("Render")
    /\ \E render_pipeline_ready \in BOOLEAN :
         draws' = IF render_pipeline_ready /\ HasPipelineBuffers
                  THEN Append(draws, Draw(config.particle_count))
                  ELSE draws
    /\ device_polls' = device_polls
    /\ UNCHANGED <<worldVars, loopVars, ghostVars, particle_buffer, spatial_lookup,
                   spatial_lookup_offsets, frame_log, open_passes, pass_dispatches>>

\* The command buffers are submitted and the schedules run again.
NextFrame ==
    /\ phase = "FrameEnd"
    /\ frame < MaxFrames
    /\ phase' = "Update"
    /\ frame' = frame + 1
    /\ frame_log' = <<>>
    /\ config_writes' = 0
    /\ update_ran' = {}
    /\ draws' = <<>>
    /\ device_polls' = 0
    /\ camera_ready' \in {camera_ready, TRUE}
    /\ UNCHANGED <<gui_config, gui_changed, main_config, config_changed, setup_ran,
                   particle_system, extracted,
                   config, ran, pipeline_buffers, config_buffer, sorting_params_buffer,
                   pipeline_ready, loopVars, ghostVars, particle_buffer, spatial_lookup,
                   spatial_lookup_offsets, open_passes, pass_dispatches>>

Next ==
    \/ setup_particles
    \/ Extract
    \/ prepare_particle_buffers
    \/ process_pipeline_queue
    \/ ComputeNodeRun
    \/ BinBegin
    \/ BinDispatch
    \/ BinEnd
    \/ SortCheck
    \/ SortLoop
    \/ SortDispatch
    \/ SortEnd
    \/ OffBegin
    \/ OffDispatch
    \/ OffEnd
    \/ PreBegin
    \/ PreDispatch
    \/ PreEnd
    \/ SimBegin
    \/ SimDispatch
    \/ SimEnd
    \/ DebugNodeRun
    \/ RenderNodeRun
    \/ NextFrame

Spec == Init /\ [][Next]_vars

(***************************************************************************)
(* The program with the parameter overlay scheduled: gui_system and        *)
(* apply_gui_updates run once each in the Update schedule of every frame,  *)
(* in either order; they and setup_particles write different fields, so    *)
(* setup_particles is taken last.                                          *)
(***************************************************************************)
MaxGuiParticles == 2

GuiInit == Init /\ main_config.particle_count <= MaxGuiParticles

GuiSetup == update_ran = {"gui_system", "apply_gui_updates"} /\ setup_particles

GuiNext ==
    \/ gui_system
    \/ apply_gui_updates
    \/ GuiSetup
    \/ Extract
    \/ prepare_particle_buffers
    \/ process_pipeline_queue
    \/ ComputeNodeRun
    \/ BinBegin
    \/ BinDispatch
    \/ BinEnd
    \/ SortCheck
    \/ SortLoop
    \/ SortDispatch
    \/ SortEnd
    \/ OffBegin
    \/ OffDispatch
    \/ OffEnd
    \/ PreBegin
    \/ PreDispatch
    \/ PreEnd
    \/ SimBegin
    \/ SimDispatch
    \/ SimEnd
    \/ DebugNodeRun
    \/ RenderNodeRun
    \/ NextFrame

GuiSpec == GuiInit /\ [][GuiNext]_vars

(***************************************************************************)
(* The parameter overlay on its own: the two systems of parameter_gui.rs   *)
(* run once each per frame, in either order, and any of the nine sliders   *)
(* can be dragged.                                                         *)
(***************************************************************************)
AllSliders == {Sliders[i] : i \in 1 .. Len(Sliders)}

gui_system_any_slider == GuiSystemRun(AllSliders)

\* Both systems have run: the Update schedule of the next frame begins.
NextUpdate ==
    /\ phase = "Update"
    /\ update_ran = {"gui_system", "apply_gui_updates"}
    /\ frame < MaxFrames
    /\ frame' = frame + 1
    /\ update_ran' = {}
    /\ UNCHANGED <<phase, main_config, config_changed, setup_ran, particle_system, extracted,
                   config, ran, pipeline_buffers, particle_buffer, config_buffer,
                   config_writes, spatial_lookup, spatial_lookup_offsets,
                   sorting_params_buffer, pipeline_ready, open_passes, pass_dispatches,
                   stage_index, step_index, iteration, frame_log, sort_input, draws,
                   device_polls, camera_ready, gui_config, gui_changed>>

OverlayNext ==
    \/ gui_system_any_slider
    \/ apply_gui_updates
    \/ NextUpdate

OverlaySpec == GuiInit /\ [][OverlayNext]_vars

(***************************************************************************)
(* The render side with a main world that spawns the population late: the  *)
(* body of setup_particles is retried in every frame until the screen      *)
(* bounds are available, so that the ParticleSystem can become present in  *)
(* the render world after prepare_particle_buffers has already run.        *)
(***************************************************************************)
setup_particles_retrying ==
    /\ phase = "Update"
    /\ phase' = "Extract"
    /\ setup_ran' = TRUE
    /\ IF particle_system = <<>> /\ camera_ready
       THEN /\ main_config' = [main_config EXCEPT !.screen_bounds = get_screen_bounds]
            /\ config_changed' = TRUE
            /\ \E velocities \in [Range(0, total_particles) -> InitVelocities] :
                 particle_system' =
                     [i \in Range(0, total_particles) |-> SeedParticle(velocities[i])]
       ELSE UNCHANGED <<main_config, config_changed, particle_system>>
    /\ UNCHANGED <<frame, extracted, config, ran, pipeline_buffers, particle_buffer,
                   config_buffer, config_writes, spatial_lookup, spatial_lookup_offsets,
                   sorting_params_buffer, pipeline_ready, open_passes, pass_dispatches,
                   stage_index, step_index, iteration, frame_log, sort_input, draws,
                   device_polls, camera_ready, guiVars>>

LateNext ==
    \/ setup_particles_retrying
    \/ Extract
    \/ prepare_particle_buffers
    \/ process_pipeline_queue
    \/ ComputeNodeRun
    \/ BinBegin
    \/ BinDispatch
    \/ BinEnd
    \/ SortCheck
    \/ SortLoop
    \/ SortDispatch
    \/ SortEnd
    \/ OffBegin
    \/ OffDispatch
    \/ OffEnd
    \/ PreBegin
    \/ PreDispatch
    \/ PreEnd
    \/ SimBegin
    \/ SimDispatch
    \/ SimEnd
    \/ DebugNodeRun
    \/ RenderNodeRun
    \/ NextFrame

LateSpec == Init /\ [][LateNext]_vars

(***************************************************************************)
(* The sort stage on its own: the state at the head of "Pass 2" with an    *)
(* arbitrary assignment of keys to the lookup array.                       *)
(***************************************************************************)
SortKeys == 0 .. MaxKey

SortInit ==
    /\ phase = "SortCheck"
    /\ frame = 1
    /\ \E count \in 1 .. MaxSortParticles :
         /\ main_config = [InitialConfig(count) EXCEPT !.screen_bounds = get_screen_bounds]
         /\ particle_system = [i \in Range(0, count) |-> SeedParticle(<<0, 0>>)]
         /\ sorting_params_buffer = sorting_buffer_data(count)
         /\ spatial_lookup_offsets = ZeroBuffer(count, 0)
         /\ \E keys \in [Range(0, next_power_of_two(count)) -> SortKeys] :
              spatial_lookup = [i \in Range(0, next_power_of_two(count)) |->
                                   [key |-> keys[i], particleIndex |-> i]]
    /\ config_changed = FALSE
    /\ setup_ran = TRUE
    /\ extracted = TRUE
    /\ config = main_config
    /\ ran = TRUE
    /\ pipeline_buffers = TRUE
    /\ particle_buffer = particle_system
    /\ config_buffer = [exists |-> TRUE, written |-> FALSE, data |-> ZeroConfig]
    /\ config_writes = 0
    /\ pipeline_ready = Stages
    /\ open_passes = 0
    /\ pass_dispatches = 0
    /\ stage_index = 0
    /\ step_index = 0
    /\ iteration = 0
    /\ frame_log = <<>>
    /\ sort_input = <<>>
    /\ draws = <<>>
    /\ device_polls = 0
    /\ camera_ready = TRUE
    /\ gui_config = InitialGUIConfig
    /\ gui_changed = TRUE
    /\ update_ran = {}

SortNext ==
    \/ SortCheck
    \/ SortLoop
    \/ SortDispatch
    \/ SortEnd

SortSpec == SortInit /\ [][SortNext]_vars

(***************************************************************************)
(* The command recording of the compute node on its own, for particle      *)
(* counts below, at and above the workgroup size: the state at the head of *)
(* ParticleComputeNode::run in the first frame, with the buffers created   *)
(* and every pipeline ready.  The node only records the dispatches; what   *)
(* the kernels then do to the buffers is left out here.                    *)
(***************************************************************************)
MaxDispatchParticles == 130

DispatchInit ==
    /\ phase = "Compute"
    /\ frame = 1
    /\ \E count \in 1 .. MaxDispatchParticles :
         /\ main_config = [InitialConfig(count) EXCEPT !.screen_bounds = get_screen_bounds]
         /\ particle_system = [i \in Range(0, count) |-> SeedParticle(<<-1, 1>>)]
         /\ sorting_params_buffer = sorting_buffer_data(count)
         /\ spatial_lookup_offsets = ZeroBuffer(count, 0)
         /\ spatial_lookup = ZeroBuffer(next_power_of_two(count), ZeroEntry)
    /\ config_changed = FALSE
    /\ setup_ran = TRUE
    /\ extracted = TRUE
    /\ config = [main_config EXCEPT !.delta_time = FrameDelta]
    /\ ran = TRUE
    /\ pipeline_buffers = TRUE
    /\ particle_buffer = particle_system
    /\ config_buffer = [exists |-> TRUE, written |-> FALSE, data |-> ZeroConfig]
    /\ config_writes = 0
    /\ pipeline_ready = Stages
    /\ open_passes = 0
    /\ pass_dispatches = 0
    /\ stage_index = 0
    /\ step_index = 0
    /\ iteration = 0
    /\ frame_log = <<>>
    /\ sort_input = <<>>
    /\ draws = <<>>
    /\ device_polls = 0
    /\ camera_ready = TRUE
    /\ gui_config = InitialGUIConfig
    /\ gui_changed = TRUE
    /\ update_ran = {}

\* if let Some(id) = pipeline_cache.get_compute_pipeline(..) {
\*     pass.set_bind_group(..); pass.set_pipeline(id); pass.dispatch_workgroups(..) }
RecordDispatch(here, next, stage, dispatch) ==
    /\ phase = here
    /\ phase' = next
    /\ IF stage \in pipeline_ready
       THEN Record(dispatch)
       ELSE UNCHANGED <<frame_log, pass_dispatches>>
    /\ UNCHANGED <<worldVars, renderVars, loopVars, ghostVars, particle_buffer, spatial_lookup,
                   spatial_lookup_offsets, open_passes>>

BinRecord ==
    RecordDispatch("BinDispatch", "BinEnd", "grid",
                   Dispatch("bin_particles_in_grid", Workgroups(config.particle_count), 0))

SortRecord ==
    RecordDispatch("SortDispatch", "SortEnd", "sort",
                   Dispatch("sort_particles", Workgroups(num_pairs(config.particle_count)),
                            iteration * UNIFORM_ALIGNMENT))

OffRecord ==
    RecordDispatch("OffDispatch", "OffEnd", "offsets",
                   Dispatch("calculate_spatial_lookup_offsets",
                            Workgroups(config.particle_count), 0))

PreRecord ==
    RecordDispatch("PreDispatch", "PreEnd", "pre_sim",
                   Dispatch("pre_simulation_step", Workgroups(config.particle_count), 0))

SimRecord ==
    RecordDispatch("SimDispatch", "SimEnd", "sim",
                   Dispatch("simulation_step", Workgroups(config.particle_count), 0))

DispatchNext ==
    \/ ComputeNodeRun
    \/ BinBegin
    \/ BinRecord
    \/ BinEnd
    \/ SortCheck
    \/ SortLoop
    \/ SortRecord
    \/ SortEnd
    \/ OffBegin
    \/ OffRecord
    \/ OffEnd
    \/ PreBegin
    \/ PreRecord
    \/ PreEnd
    \/ SimBegin
    \/ SimRecord
    \/ SimEnd

DispatchSpec == DispatchInit /\ [][DispatchNext]_vars

(***************************************************************************)
(* Vocabulary of the properties.                                           *)
(***************************************************************************)
ParticleCount == config.particle_count

LookupIndexes == DOMAIN spatial_lookup

\* The sort loop of this frame has been left after its last step.
SortStageDone == phase = "OffBegin" /\ "sort" \in pipeline_ready

\* The sort loop of this frame has been entered.
SortStageEntered == phase \in {"SortLoop", "SortDispatch", "SortEnd"} \/ SortStageDone

NonDecreasing(lookup) ==
    \A i, j \in DOMAIN lookup : i < j => lookup[i].key <= lookup[j].key

\* The parameter record the step about to be dispatched is bound to.
CurrentParams == ParamsAt(sorting_params_buffer, iteration * UNIFORM_ALIGNMENT)

\* The threads of the step about to be dispatched that compare a pair.
ActiveThreads ==
    {t \in Threads(Workgroups(num_pairs(ParticleCount))) : SortPair(CurrentParams, t) # <<>>}

\* The lookup indices a thread of that step reads and may write.
Touched(t) == {SortPair(CurrentParams, t)[1], SortPair(CurrentParams, t)[2]}

(***************************************************************************)
(* C2: after the last sort step the whole lookup array, of length          *)
(* next_pow2(particle_count), is in non-decreasing key order, whatever the *)
(* keys were when the sort began, the steps running one after the other    *)
(* with the parameter records written at setup.                            *)
(***************************************************************************)
C2_SortedAfterLastStep == SortStageDone => NonDecreasing(spatial_lookup)

\* A sort over eight entries that began out of order and has finished.
C2_Witness ==
    /\ SortStageDone
    /\ Cardinality(LookupIndexes) = 8
    /\ Len(frame_log) = 6
    /\ ~NonDecreasing(sort_input)
    /\ NonDecreasing(spatial_lookup)

(***************************************************************************)
(* C5: within one sort step no lookup index is touched by two threads: the *)
(* two indices of a thread differ, and the pairs of two different threads  *)
(* have no index in common.                                                *)
(***************************************************************************)
C5_PairsDisjoint ==
    phase = "SortDispatch" =>
        LET active == ActiveThreads
            touched == [t \in active |-> Touched(t)]
        IN  /\ \A t \in active : Cardinality(touched[t]) = 2
            /\ \A t \in active : \A u \in active : t # u => touched[t] \cap touched[u] = {}

\* A step of the last stage over eight entries: all four pair threads are active.
C5_Witness ==
    /\ phase = "SortDispatch"
    /\ stage_index = 2
    /\ step_index = 1
    /\ ActiveThreads = Range(0, num_pairs(ParticleCount))
    /\ Cardinality(ActiveThreads) = 4

\* The compute node has returned in a frame in which it found the buffers.
ComputeNodeReturned == phase = "Debug" /\ extracted /\ pipeline_buffers

LogNames == [i \in 1 .. Len(frame_log) |-> frame_log[i].entry_point]

\* Position of a stage in the frame's sequence.
StageRank(entry_point) ==
    CASE entry_point = "bin_particles_in_grid" -> 1
      [] entry_point = "sort_particles" -> 2
      [] entry_point = "calculate_spatial_lookup_offsets" -> 3
      [] entry_point = "pre_simulation_step" -> 4
      [] entry_point = "simulation_step" -> 5

DispatchOrderMonotone ==
    \A i, j \in 1 .. Len(frame_log) :
        i < j => StageRank(frame_log[i].entry_point) <= StageRank(frame_log[j].entry_point)

\* Number of sort steps of a sort over L stages, stage s holding s + 1 steps.
SortStepCount(particle_count) ==
    (num_stages(particle_count) * (num_stages(particle_count) + 1)) \div 2

FullSequence(particle_count) ==
    <<"bin_particles_in_grid">>
    \o [i \in 1 .. SortStepCount(particle_count) |-> "sort_particles"]
    \o <<"calculate_spatial_lookup_offsets", "pre_simulation_step", "simulation_step">>

(***************************************************************************)
(* C1: in every frame in which the compute node runs for a particle system *)
(* that has its buffers and records dispatches, the dispatches recorded    *)
(* when the node returns are exactly the binner, all sort steps, the       *)
(* offset builder, the pre-simulation step and the simulation step, in     *)
(* that order, and at no point is a dispatch of a later stage recorded     *)
(* before one of an earlier stage.                                         *)
(***************************************************************************)
C1_FixedOrderEveryFrame ==
    /\ DispatchOrderMonotone
    /\ (ComputeNodeReturned /\ frame_log # <<>>) => LogNames = FullSequence(ParticleCount)

(***************************************************************************)
(* C4: every dispatch is recorded in a compute pass of its own: at most    *)
(* one pass is open at any time, the open pass holds at most one dispatch, *)
(* every dispatch was recorded with exactly one pass open, and no pass is  *)
(* open where the next one is begun or after the node has returned.        *)
(***************************************************************************)
C4_OnePassPerDispatch ==
    /\ open_passes \in {0, 1}
    /\ pass_dispatches <= 1
    /\ \A i \in 1 .. Len(frame_log) : frame_log[i].open_passes = 1
    /\ phase \in {"BinBegin", "SortCheck", "SortLoop", "OffBegin", "PreBegin", "SimBegin",
                  "Debug", "Render", "FrameEnd"} => open_passes = 0

\* The last pass of a complete frame is still open and holds its one dispatch.
C4_Witness ==
    /\ phase = "SimEnd"
    /\ ParticleCount = 5
    /\ LogNames = FullSequence(ParticleCount)
    /\ open_passes = 1
    /\ pass_dispatches = 1

IsSortDispatch(dispatch) == dispatch.entry_point = "sort_particles"

SortLog == SelectSeq(frame_log, IsSortDispatch)

(***************************************************************************)
(* C6: a frame whose sort stage has run holds L * (L + 1) / 2 sort         *)
(* dispatches, L = log2(next_pow2(particle_count)); stage s contributes    *)
(* the s + 1 steps 0 .. s; and the (stage, step) pairs are issued in       *)
(* increasing order.                                                       *)
(***************************************************************************)
C6_SortDispatchCount ==
    SortStageDone =>
        /\ Len(SortLog) = SortStepCount(ParticleCount)
        /\ \A s \in Range(0, num_stages(ParticleCount)) :
             {SortLog[i].step : i \in {j \in 1 .. Len(SortLog) : SortLog[j].stage = s}}
                 = 0 .. s
        /\ \A i \in 1 .. Len(SortLog) : SortLog[i].stage \in Range(0, num_stages(ParticleCount))
        /\ \A i, j \in 1 .. Len(SortLog) :
             i < j => \/ SortLog[i].stage < SortLog[j].stage
                      \/ /\ SortLog[i].stage = SortLog[j].stage
                         /\ SortLog[i].step < SortLog[j].step

\* Five particles: three stages, six sort dispatches.
C6_Witness ==
    /\ SortStageDone
    /\ ParticleCount = 5
    /\ num_stages(ParticleCount) = 3
    /\ Len(SortLog) = 6
    /\ SortLog[6].stage = 2
    /\ SortLog[6].step = 2

\* The key the binner gives particle p, from the position the store holds.
BinnerKey(p) ==
    CellKey(particle_buffer[p].position, config.smoothing_radius, ParticleCount)

RealKeys == {BinnerKey(p) : p \in Range(0, ParticleCount)}

EntriesOf(lookup, entry) == {i \in DOMAIN lookup : lookup[i] = entry}

SameMultiset(before, after) ==
    /\ DOMAIN before = DOMAIN after
    /\ \A i \in DOMAIN before :
         Cardinality(EntriesOf(before, before[i])) = Cardinality(EntriesOf(after, before[i]))

(***************************************************************************)
(* C3: in a frame in which the binner has run, the lookup array holds the  *)
(* same multiset of entries after every sort step as when the sort began,  *)
(* and every particle index below particle_count appears in exactly one    *)
(* entry of the array, with the key the binner gave it.                    *)
(***************************************************************************)
C3_EntriesPreserved ==
    (SortStageEntered /\ "grid" \in pipeline_ready) =>
        /\ SameMultiset(sort_input, spatial_lookup)
        /\ \A p \in Range(0, ParticleCount) :
             /\ Cardinality({i \in LookupIndexes : spatial_lookup[i].particleIndex = p}) = 1
             /\ \A i \in LookupIndexes :
                  spatial_lookup[i].particleIndex = p => spatial_lookup[i].key = BinnerKey(p)

(***************************************************************************)
(* C7: at the end of the sort stage of a frame in which the binner has     *)
(* run, every entry at an index at or above particle_count carries the     *)
(* sentinel key and every entry below particle_count carries a real key.   *)
(***************************************************************************)
C7_PaddingStaysAtTail ==
    (SortStageDone /\ "grid" \in pipeline_ready) =>
        \A i \in LookupIndexes :
            IF i >= ParticleCount
            THEN spatial_lookup[i].key = PaddingEntry.key
            ELSE spatial_lookup[i].key # PaddingEntry.key

\* The offset builder has been dispatched in this frame.
OffsetsBuilt == phase = "OffEnd" /\ "offsets" \in pipeline_ready

KeyIndexes(k) == {i \in LookupIndexes : spatial_lookup[i].key = k}

(***************************************************************************)
(* C8: after the offset builder of a frame in which the binner has run,    *)
(* for every key k carried by a real entry, the slot of k holds the index  *)
(* of the first entry with key k, and the entries with key k are           *)
(* contiguous from there.                                                  *)
(***************************************************************************)
C8_OffsetIsFirstOfRun ==
    (OffsetsBuilt /\ "grid" \in pipeline_ready) =>
        \A k \in RealKeys :
            /\ spatial_lookup_offsets[k] \in KeyIndexes(k)
            /\ \A i \in KeyIndexes(k) : spatial_lookup_offsets[k] <= i
            /\ \A i \in LookupIndexes :
                 (spatial_lookup_offsets[k] <= i
                    /\ i < spatial_lookup_offsets[k] + Cardinality(KeyIndexes(k)))
                 => i \in KeyIndexes(k)

(***************************************************************************)
(* C9: after the offset builder of a frame in which the binner and the     *)
(* sort have run, the slot of every key that no real entry carries holds   *)
(* the sentinel.                                                           *)
(***************************************************************************)
C9_EmptyCellsHoldSentinel ==
    (OffsetsBuilt /\ {"grid", "sort"} \subseteq pipeline_ready) =>
        \A k \in DOMAIN spatial_lookup_offsets :
            k \notin RealKeys => spatial_lookup_offsets[k] = SentinelKey

(***************************************************************************)
(* C10: whenever a dispatch has been recorded in a frame, the              *)
(* configuration buffer has been written in that frame, before the         *)
(* dispatch, with the configuration of that frame, and it is written at    *)
(* most once per frame.                                                    *)
(***************************************************************************)
C10_ConfigWrittenBeforeDispatch ==
    /\ config_writes <= 1
    /\ frame_log # <<>> =>
         /\ config_writes = 1
         /\ config_buffer.written
         /\ config_buffer.data = config

\* The buffers and the parameter table have the sizes particle_count asks for.
BuiltForParticleCount ==
    /\ Cardinality(DOMAIN particle_buffer) = ParticleCount
    /\ Cardinality(LookupIndexes) = next_power_of_two(ParticleCount)
    /\ Cardinality(DOMAIN spatial_lookup_offsets) = ParticleCount
    /\ DOMAIN sorting_params_buffer =
           {i * UNIFORM_ALIGNMENT : i \in Range(0, SortStepCount(ParticleCount))}

(***************************************************************************)
(* C11: no step of the program changes particle_count, in the main world   *)
(* or in the render world, and the two agree; so once the buffers exist,   *)
(* the lookup array, the offset table, the particle buffer and the         *)
(* parameter table have in every frame the sizes that the particle_count   *)
(* of that frame asks for.                                                 *)
(***************************************************************************)
C11_ParticleCountConstant ==
    /\ [](main_config.particle_count = config.particle_count)
    /\ [](pipeline_buffers => BuiltForParticleCount)
    /\ [][/\ main_config.particle_count' = main_config.particle_count
          /\ config.particle_count' = config.particle_count]_vars

\* A sort step of the third frame, after a slider change has been applied to
\* the configuration and the configuration has been refreshed twice.
C11_Witness ==
    /\ phase = "SortDispatch"
    /\ frame = 3
    /\ config.frame_count = 2
    /\ config.near_density_multiplier # InitialTunable("near_density_multiplier")
    /\ BuiltForParticleCount

(***************************************************************************)
(* C12: the i-th sort dispatch of a frame (i from 0) binds the sort        *)
(* parameters at dynamic offset i * 256; the offset is a multiple of 256,  *)
(* a record was written there at setup, and offset + size_of(SortingParams)*)
(* does not exceed the size of the sort-parameter buffer.                  *)
(***************************************************************************)
C12_DynamicOffsetsInBuffer ==
    \A i \in 1 .. Len(SortLog) :
        LET offset == SortLog[i].dynamic_offset IN
          /\ offset = (i - 1) * 256
          /\ offset = (i - 1) * UNIFORM_ALIGNMENT
          /\ offset % 256 = 0
          /\ offset \in DOMAIN sorting_params_buffer
          /\ offset + SizeOfSortingParams <= SortingParamsBufferSize(ParticleCount)

\* The last of the six sort dispatches of five particles, bound at 5 * 256.
C12_Witness ==
    /\ phase = "SortEnd"
    /\ Len(SortLog) = SortStepCount(ParticleCount)
    /\ Len(SortLog) = 6
    /\ SortLog[6].dynamic_offset = 1280

\* The binner has been dispatched in this frame and nothing after it yet.
BinnerDone == phase = "BinEnd" /\ "grid" \in pipeline_ready

(***************************************************************************)
(* C13: right after the Grid Binner of a frame, every particle             *)
(* p < particle_count has exactly one lookup entry with particleIndex p,   *)
(* and the key of that entry is the hash of the cell of p's position in    *)
(* that frame.                                                             *)
(***************************************************************************)
C13_OneEntryPerParticle ==
    BinnerDone =>
        \A p \in Range(0, ParticleCount) :
            /\ Cardinality({i \in LookupIndexes : spatial_lookup[i].particleIndex = p}) = 1
            /\ \A i \in LookupIndexes :
                 spatial_lookup[i].particleIndex = p => spatial_lookup[i].key = BinnerKey(p)

\* The part of C13 that the padding does not touch: the entry the binner
\* writes for particle p, at index p, names p and carries the key of p's cell.
C13_BinnerEntries ==
    BinnerDone =>
        \A p \in Range(0, ParticleCount) :
            spatial_lookup[p] = [key |-> BinnerKey(p), particleIndex |-> p]

\* A dispatch of one of the two passes that write the Particle Store is next.
ParticlePassNext ==
    \/ phase = "PreDispatch" /\ "pre_sim" \in pipeline_ready
    \/ phase = "SimDispatch" /\ "sim" \in pipeline_ready

\* A thread of either pass, run alone, changes no record but its own.
OwnRecordOnly ==
    \A t \in DOMAIN particle_buffer :
        \A j \in DOMAIN particle_buffer \ {t} :
            /\ pre_simulation_step({t}, particle_buffer, spatial_lookup,
                                   spatial_lookup_offsets, config)[j] = particle_buffer[j]
            /\ simulation_step({t}, particle_buffer, spatial_lookup,
                               spatial_lookup_offsets, config)[j] = particle_buffer[j]

\* After a dispatch every record holds what its own thread, run alone, writes.
WrittenByOwnThread ==
    /\ (phase = "PreDispatch" /\ "pre_sim" \in pipeline_ready) =>
          \A i \in DOMAIN particle_buffer :
              particle_buffer'[i] =
                  pre_simulation_step({i}, particle_buffer, spatial_lookup,
                                      spatial_lookup_offsets, config)[i]
    /\ (phase = "SimDispatch" /\ "sim" \in pipeline_ready) =>
          \A i \in DOMAIN particle_buffer :
              particle_buffer'[i] =
                  simulation_step({i}, particle_buffer, spatial_lookup,
                                  spatial_lookup_offsets, config)[i]

C15_DrawAfterCompute ==
    /\ [](draws # <<>> =>
              /\ phase = "FrameEnd"
              /\ open_passes = 0
              /\ \A i \in 1 .. Len(draws) : draws[i].dispatches_before = Len(frame_log))
    /\ [][Len(frame_log') > Len(frame_log) => draws = <<>> /\ draws' = <<>>]_vars
    /\ [][draws' # draws /\ draws' # <<>> =>
              /\ phase = "Render"
              /\ particle_buffer' = particle_buffer
              /\ config'.particle_count = config.particle_count
              /\ main_config'.particle_count = main_config.particle_count]_vars

\* A draw of five instances recorded after the full sequence of the frame.
C15_Witness ==
    /\ phase = "FrameEnd"
    /\ Len(draws) = 1
    /\ draws[1].instances = 5
    /\ draws[1].dispatches_before = 4 + SortStepCount(ParticleCount)

\* ParticleComputeNode::run has been called and has not returned.
InComputeNode ==
    phase \in {"Compute", "BinBegin", "BinDispatch", "BinEnd", "SortCheck", "SortLoop",
               "SortDispatch", "SortEnd", "OffBegin", "OffDispatch", "OffEnd",
               "PreBegin", "PreDispatch", "PreEnd", "SimBegin", "SimDispatch", "SimEnd"}

\* The dispatches of the stages whose pipelines are available, each in full.
ReadySequence ==
    (IF "grid" \in pipeline_ready THEN <<"bin_particles_in_grid">> ELSE <<>>)
    \o (IF "sort" \in pipeline_ready
        THEN [i \in 1 .. SortStepCount(ParticleCount) |-> "sort_particles"] ELSE <<>>)
    \o (IF "offsets" \in pipeline_ready
        THEN <<"calculate_spatial_lookup_offsets">> ELSE <<>>)
    \o (IF "pre_sim" \in pipeline_ready THEN <<"pre_simulation_step">> ELSE <<>>)
    \o (IF "sim" \in pipeline_ready THEN <<"simulation_step">> ELSE <<>>)

\* Sort dispatches still to be recorded by the loops of Pass 2.
RemainingSortSteps ==
    SortStepCount(ParticleCount) - (stage_index * (stage_index + 1)) \div 2 - step_index

\* Statements the run still has to execute after the current one, at most:
\* three per remaining sort dispatch, one per remaining stage of the sort,
\* and the fixed statements of the passes that follow.
StatementsLeft ==
    CASE phase = "Compute" -> 16 + 3 * SortStepCount(ParticleCount) + num_stages(ParticleCount)
      [] phase = "BinBegin" -> 15 + 3 * SortStepCount(ParticleCount) + num_stages(ParticleCount)
      [] phase = "BinDispatch" -> 14 + 3 * SortStepCount(ParticleCount) + num_stages(ParticleCount)
      [] phase = "BinEnd" -> 13 + 3 * SortStepCount(ParticleCount) + num_stages(ParticleCount)
      [] phase = "SortCheck" -> 12 + 3 * SortStepCount(ParticleCount) + num_stages(ParticleCount)
      [] phase = "SortLoop" ->
             11 + 3 * RemainingSortSteps + (num_stages(ParticleCount) - stage_index)
      [] phase = "SortDispatch" ->
             10 + 3 * RemainingSortSteps + (num_stages(ParticleCount) - stage_index)
      [] phase = "SortEnd" ->
             9 + 3 * RemainingSortSteps + (num_stages(ParticleCount) - stage_index)
      [] phase = "OffBegin" -> 10
      [] phase = "OffDispatch" -> 9
      [] phase = "OffEnd" -> 8
      [] phase = "PreBegin" -> 7
      [] phase = "PreDispatch" -> 6
      [] phase = "PreEnd" -> 5
      [] phase = "SimBegin" -> 4
      [] phase = "SimDispatch" -> 3
      [] phase = "SimEnd" -> 2
      [] phase = "Debug" -> 1
      [] OTHER -> 0

(***************************************************************************)
(* C16: a run of the compute node returns after finitely many statements:  *)
(* every step inside the run leads to a state with fewer statements left,  *)
(* never below the return.  The run records at most 4 + L(L+1)/2           *)
(* dispatches, L = log2(next_pow2(particle_count)); when it returns, every *)
(* stage it entered has been recorded in full; and a dispatch is recorded  *)
(* only inside the run, in the same frame, so that a frame's sequence is   *)
(* complete before the next frame begins.                                  *)
(***************************************************************************)
C16_ComputeNodeTerminates ==
    /\ [](Len(frame_log) <= 4 + SortStepCount(ParticleCount))
    /\ [](ComputeNodeReturned => LogNames = ReadySequence)
    /\ [][frame' # frame => phase = "FrameEnd" /\ open_passes = 0 /\ frame_log' = <<>>]_vars
    /\ [][Len(frame_log') > Len(frame_log) => frame' = frame /\ InComputeNode]_vars
    /\ [][InComputeNode => 0 < StatementsLeft' /\ StatementsLeft' < StatementsLeft]_vars

\* The return of the second frame's run with all ten dispatches of five
\* particles recorded.
C16_Witness ==
    /\ ComputeNodeReturned
    /\ frame = 2
    /\ ParticleCount = 5
    /\ Len(frame_log) = 10
    /\ LogNames = ReadySequence

\* The Force/Integrator pass of this frame has been dispatched.
IntegratorDone == phase = "SimEnd" /\ "sim" \in pipeline_ready

\* |v|^2, twice the kinetic energy of a unit mass.
TwiceEnergy(v) == v[1] * v[1] + v[2] * v[2]

(***************************************************************************)
(* C17: after the Force/Integrator pass of any frame every particle has    *)
(* 0.5 * |velocity|^2 <= max_energy, with the max_energy of that frame's   *)
(* configuration (velocities are integers here, so epsilon is 0).          *)
(***************************************************************************)
C17_EnergyBounded ==
    IntegratorDone =>
        \A p \in DOMAIN particle_buffer :
            TwiceEnergy(particle_buffer[p].velocity) <= 2 * config.max_energy

\* The third frame's integrator has run on a particle that was seeded with
\* more than max_energy.
C17_Witness ==
    /\ IntegratorDone
    /\ frame = 3
    /\ \E p \in DOMAIN particle_buffer :
         /\ TwiceEnergy(particle_system[p].velocity) > 2 * config.max_energy
         /\ TwiceEnergy(particle_buffer[p].velocity) <= 2 * config.max_energy
         /\ particle_buffer[p].velocity # <<0, 0>>

\* Coordinate c of particle p after a step of the integrator: either it moved
\* by its velocity, or it sits on the bound it would have crossed and its
\* velocity is the negation of the one that would have carried it across.
MovedOrReflected(p, c) ==
    LET x0 == particle_buffer[p].position[c]
        x1 == particle_buffer'[p].position[c]
        v1 == particle_buffer'[p].velocity[c]
        dt == config.fixed_delta_time
        lo == config.screen_bounds[2 * c - 1]
        hi == config.screen_bounds[2 * c]
    IN  \/ x1 = x0 + v1 * dt
        \/ x1 = lo /\ x0 - v1 * dt < lo
        \/ x1 = hi /\ x0 - v1 * dt > hi

(***************************************************************************)
(* C18: after the integration of any frame every particle lies within      *)
(* screen_bounds, xmin <= x <= xmax and ymin <= y <= ymax; and in the step *)
(* of the integrator a coordinate either moves by its velocity or is put   *)
(* on the bound it crossed with the velocity component negated.            *)
(***************************************************************************)
C18_WithinScreenBounds ==
    /\ [](IntegratorDone =>
              \A p \in DOMAIN particle_buffer :
                  /\ config.screen_bounds[1] <= particle_buffer[p].position[1]
                  /\ particle_buffer[p].position[1] <= config.screen_bounds[2]
                  /\ config.screen_bounds[3] <= particle_buffer[p].position[2]
                  /\ particle_buffer[p].position[2] <= config.screen_bounds[4])
    /\ [][(phase = "SimDispatch" /\ "sim" \in pipeline_ready) =>
              \A p \in DOMAIN particle_buffer :
                  MovedOrReflected(p, 1) /\ MovedOrReflected(p, 2)]_vars

\* A particle that crossed the left and the upper bound sits in that corner
\* and moves back inwards.
C18_Witness ==
    /\ IntegratorDone
    /\ \E p \in DOMAIN particle_buffer :
         /\ particle_buffer[p].position = <<config.screen_bounds[1], config.screen_bounds[4]>>
         /\ particle_buffer[p].velocity = <<1, -1>>
         /\ particle_system[p].velocity = <<-1, 1>>

\* The frame of a run in which every stage is dispatched, as a function of the
\* buffers at its start: binner, all sort steps, offset build, predictor,
\* integrator, each applied to the result of the one before.
RECURSIVE SortedFrom(_, _, _)
SortedFrom(lookup, it, particle_count) ==
    IF it >= SortStepCount(particle_count) THEN lookup
    ELSE SortedFrom(CHOOSE result \in
                        sort_particles(Threads(Workgroups(num_pairs(particle_count))),
                                       ParamsAt(sorting_buffer_data(particle_count),
                                                it * UNIFORM_ALIGNMENT),
                                       lookup) : TRUE,
                    it + 1, particle_count)

FullFrame(buffers, cfg) ==
    LET threads == Threads(Workgroups(cfg.particle_count))
        binned  == bin_particles_in_grid(threads, buffers.particles, cfg.smoothing_radius,
                                         buffers.lookup)
        sorted  == SortedFrom(binned, 0, cfg.particle_count)
        offsets == CHOOSE result \in
                       calculate_spatial_lookup_offsets(threads, sorted, buffers.offsets) : TRUE
        predicted == pre_simulation_step(threads, buffers.particles, sorted, offsets, cfg)
    IN  [particles |-> simulation_step(threads, predicted, sorted, offsets, cfg),
         lookup    |-> sorted,
         offsets   |-> offsets]

\* The buffers after k frames of the run that starts from the seeded array.
RECURSIVE ReferenceRun(_)
ReferenceRun(k) ==
    IF k = 0
    THEN [particles |-> particle_system,
          lookup    |-> ZeroBuffer(next_power_of_two(ParticleCount), ZeroEntry),
          offsets   |-> ZeroBuffer(ParticleCount, 0)]
    ELSE FullFrame(ReferenceRun(k - 1), config)

Motion(particles) ==
    [p \in DOMAIN particles |-> <<particles[p].position, particles[p].velocity>>]

\* The result of the dispatch that is next does not depend on the order in
\* which its threads run: only one buffer content can come out of it.
ThreadOrderIrrelevant ==
    /\ phase = "SortDispatch" =>
          Cardinality(sort_particles(Threads(Workgroups(num_pairs(ParticleCount))),
                                     ParamsAt(sorting_params_buffer,
                                              iteration * UNIFORM_ALIGNMENT),
                                     spatial_lookup)) = 1
    /\ (phase = "OffDispatch" /\ "offsets" \in pipeline_ready) =>
          Cardinality(calculate_spatial_lookup_offsets(Threads(Workgroups(ParticleCount)),
                                                       spatial_lookup,
                                                       spatial_lookup_offsets)) = 1

\* All five stages were dispatched in the first frame and the node returned.
FirstFrameInFull ==
    ComputeNodeReturned /\ frame = 1 /\ LogNames = FullSequence(ParticleCount)

(***************************************************************************)
(* C19: no dispatch has more than one possible result, whatever the order  *)
(* of its threads; and the positions and velocities at the end of a first  *)
(* frame that ran all five stages are those of the reference run, a        *)
(* function of the seeded array and of the configuration alone, so that    *)
(* two runs from the same array and configuration agree.                   *)
(***************************************************************************)
C19_Deterministic ==
    /\ ThreadOrderIrrelevant
    /\ FirstFrameInFull => Motion(particle_buffer) = Motion(ReferenceRun(1).particles)

\* The part of C19 that holds: in a frame in which all five pipelines are
\* available no dispatch has more than one possible result, and the first
\* frame, if all five stages run in it, ends as the reference run does.
C19_FullPipelineDeterministic ==
    pipeline_ready = Stages =>
        /\ ThreadOrderIrrelevant
        /\ FirstFrameInFull => Motion(particle_buffer) = Motion(ReferenceRun(1).particles)

\* The binner, the whole sort and the offset build have run in this frame and
\* the dispatch of a neighbor-scanning pass is next.
ScanNext ==
    /\ {"grid", "sort", "offsets"} \subseteq pipeline_ready
    /\ \/ phase = "PreDispatch" /\ "pre_sim" \in pipeline_ready
       \/ phase = "SimDispatch" /\ "sim" \in pipeline_ready

\* The lookup indices the scan of particle p enumerates in this state.
Scanned(p) ==
    NeighborEntries(particle_buffer[p].position, config.smoothing_radius,
                    spatial_lookup, spatial_lookup_offsets)

\* An empty cell contributes nothing and every read stays inside the array.
ScanInsideArray(p) ==
    /\ \A key \in NeighborKeys(particle_buffer[p].position, config.smoothing_radius,
                               ParticleCount) :
         /\ spatial_lookup_offsets[key] = SentinelKey =>
                CellEntries(spatial_lookup, spatial_lookup_offsets, key) = {}
         /\ spatial_lookup_offsets[key] # SentinelKey =>
                spatial_lookup_offsets[key] \in LookupIndexes
    /\ Scanned(p) \subseteq LookupIndexes

\* Every enumerated entry is the entry the binner wrote for a particle, and
\* no particle is enumerated twice.
ScanSkipsPadding(p) ==
    /\ \A i \in Scanned(p) :
         /\ spatial_lookup[i].particleIndex \in DOMAIN particle_buffer
         /\ spatial_lookup[i].key = BinnerKey(spatial_lookup[i].particleIndex)
    /\ \A i, j \in Scanned(p) :
         i # j => spatial_lookup[i].particleIndex # spatial_lookup[j].particleIndex

\* No other particle lies in the 3x3 block of cells around the cell of p.
Isolated(p) ==
    \A q \in DOMAIN particle_buffer \ {p} :
        \/ Abs(CellCoord(particle_buffer[q].position[1], config.smoothing_radius)
               - CellCoord(particle_buffer[p].position[1], config.smoothing_radius)) > 1
        \/ Abs(CellCoord(particle_buffer[q].position[2], config.smoothing_radius)
               - CellCoord(particle_buffer[p].position[2], config.smoothing_radius)) > 1

\* An isolated particle gets its own contribution to both densities, no more.
SelfContributionOnly(p) ==
    Isolated(p) =>
        /\ Density(p, particle_buffer, config.smoothing_radius, spatial_lookup,
                   spatial_lookup_offsets) = DensityKernel(0, config.smoothing_radius)
        /\ NearDensity(p, particle_buffer, config.smoothing_radius, spatial_lookup,
                       spatial_lookup_offsets) = NearDensityKernel(0, config.smoothing_radius)

(***************************************************************************)
(* C20: in a frame in which the binner, the sort and the offset build have *)
(* run, the scan of either neighbor-scanning pass takes nothing from a     *)
(* cell whose slot of the offset table holds the sentinel, reads inside    *)
(* the lookup array only, enumerates no padding entry, and gives a         *)
(* particle with no other particle in its 3x3 neighborhood its own         *)
(* contribution to density and near-density only.                          *)
(***************************************************************************)
C20_ScanSkipsEmptyCellsAndPadding ==
    ScanNext =>
        \A p \in DOMAIN particle_buffer :
            ScanInsideArray(p) /\ ScanSkipsPadding(p) /\ SelfContributionOnly(p)

\* The parts of C20 that the padding does not touch: the handling of empty
\* cells and the reads inside the array, for any number of particles; and the
\* whole of it when the lookup array has no padding.
C20_WithoutPadding ==
    ScanNext =>
        \A p \in DOMAIN particle_buffer :
            /\ ScanInsideArray(p)
            /\ ParticleCount = next_power_of_two(ParticleCount) =>
                   ScanSkipsPadding(p) /\ SelfContributionOnly(p)

\* Two particles, each alone in its neighborhood, before the predictor runs.
C20_IsolatedPair ==
    /\ ScanNext
    /\ ParticleCount = 2
    /\ Isolated(0)
    /\ Isolated(1)

C22_PopulationCreatedOnce ==
    /\ [](particle_system # <<>> =>
            /\ setup_ran
            /\ Cardinality(DOMAIN particle_system) = main_config.particle_count)
    /\ [][particle_system' # particle_system => phase = "Update" /\ ~setup_ran]_vars
    /\ [][particle_system # <<>> => particle_system' = particle_system]_vars
    /\ [][pipeline_buffers => DOMAIN particle_buffer' = DOMAIN particle_buffer]_vars

\* The population of the first frame after setup_particles has run again in
\* the third frame, with the particle buffer made from it.
C22_Witness ==
    /\ phase = "Extract"
    /\ frame = MaxFrames
    /\ setup_ran
    /\ Cardinality(DOMAIN particle_system) = MaxParticles
    /\ pipeline_buffers
    /\ DOMAIN particle_buffer = DOMAIN particle_system

(***************************************************************************)
(* C23: with DEBUG off as shipped, no step of the compute, debug or render *)
(* node waits for the GPU or reads a buffer back: device.poll with wait is *)
(* never called in the frame loop, and the step of the debug node records  *)
(* no dispatch, no draw and no pass and leaves every buffer as it was.     *)
(***************************************************************************)
C23_NoBlockingInFrameLoop ==
    /\ [](~DEBUG /\ device_polls = 0)
    /\ [][device_polls' = device_polls]_vars
    /\ [][phase = "Debug" =>
            /\ frame_log' = frame_log
            /\ draws' = draws
            /\ open_passes' = open_passes
            /\ particle_buffer' = particle_buffer
            /\ spatial_lookup' = spatial_lookup
            /\ spatial_lookup_offsets' = spatial_lookup_offsets
            /\ config_buffer' = config_buffer]_vars

\* The debug node has returned in a frame whose five stages were dispatched.
C23_Witness ==
    /\ phase = "Render"
    /\ pipeline_buffers
    /\ pipeline_ready = Stages
    /\ Len(frame_log) = 4 + SortStepCount(ParticleCount)
    /\ device_polls = 0

\* The record expected for the sort step (stage s, step t).
ExpectedParams(s, t) ==
    [n            |-> next_power_of_two(ParticleCount),
     group_width  |-> 2 ^ (s - t),
     group_height |-> 2 * (2 ^ (s - t)) - 1,
     step_index   |-> t]

(***************************************************************************)
(* C24: in every frame the sort dispatch of (stage s, step t) reads the    *)
(* record (n = next_pow2(particle_count), group_width = 2^(s-t),           *)
(* group_height = 2 * group_width - 1, step_index = t); n is the number of *)
(* entries of the lookup buffer; the i-th sort dispatch of a frame reads   *)
(* the record of iteration i and no other sort dispatch of the frame reads *)
(* it; and the table is written once, when the buffers are created, and    *)
(* never again.                                                            *)
(***************************************************************************)
C24_SortParamsPerStep ==
    /\ [](phase = "SortDispatch" =>
            /\ step_index <= stage_index
            /\ CurrentParams = ExpectedParams(stage_index, step_index)
            /\ CurrentParams.n = Cardinality(LookupIndexes))
    /\ [](\A i \in 1 .. Len(SortLog) :
            /\ SortLog[i].dynamic_offset = (i - 1) * UNIFORM_ALIGNMENT
            /\ ParamsAt(sorting_params_buffer, SortLog[i].dynamic_offset)
                   = ExpectedParams(SortLog[i].stage, SortLog[i].step)
            /\ \A j \in 1 .. Len(SortLog) :
                   i # j => SortLog[i].dynamic_offset # SortLog[j].dynamic_offset)
    /\ [][pipeline_buffers => sorting_params_buffer' = sorting_params_buffer]_vars

\* The sort step (stage 2, step 1) of the third frame with five particles:
\* the record at iteration 4 is (8, 2, 3, 1).
C24_Witness ==
    /\ phase = "SortDispatch"
    /\ frame = MaxFrames
    /\ ParticleCount = 5
    /\ stage_index = 2
    /\ step_index = 1
    /\ iteration = 4
    /\ CurrentParams = [n |-> 8, group_width |-> 2, group_height |-> 3, step_index |-> 1]

\* No buffer of the entity and no bind group is created, replaced or resized.
BuffersKept ==
    /\ pipeline_buffers' = pipeline_buffers
    /\ config_buffer'.exists = config_buffer.exists
    /\ particle_buffer' = particle_buffer
    /\ spatial_lookup' = spatial_lookup
    /\ spatial_lookup_offsets' = spatial_lookup_offsets
    /\ sorting_params_buffer' = sorting_params_buffer

(***************************************************************************)
(* C25: the buffers and the bind group are created at most once: they come *)
(* into existence only in the first invocation of prepare_particle_buffers;*)
(* every later invocation keeps every buffer and the bind group as they    *)
(* are and only writes the configuration into the configuration buffer;    *)
(* and once the buffers exist no step of the program changes the size of   *)
(* any of them or removes them.                                            *)
(***************************************************************************)
C25_BuffersCreatedOnce ==
    /\ [][ran => ran']_vars
    /\ [][pipeline_buffers' # pipeline_buffers =>
            phase = "Prepare" /\ ~ran /\ pipeline_buffers']_vars
    /\ [][phase = "Prepare" /\ ran =>
            /\ BuffersKept
            /\ pipeline_buffers => config_buffer'.written /\ config_buffer'.data = config']_vars
    /\ [][pipeline_buffers =>
            /\ pipeline_buffers' /\ config_buffer'.exists
            /\ DOMAIN particle_buffer' = DOMAIN particle_buffer
            /\ DOMAIN spatial_lookup' = DOMAIN spatial_lookup
            /\ DOMAIN spatial_lookup_offsets' = DOMAIN spatial_lookup_offsets
            /\ sorting_params_buffer' = sorting_params_buffer]_vars

\* The third invocation has refreshed the configuration buffer; the particle
\* buffer is the one made in the first frame, moved on by two frames of the
\* simulation.
C25_Witness ==
    /\ phase = "Queue"
    /\ frame = MaxFrames
    /\ ran
    /\ pipeline_buffers
    /\ config_buffer.written
    /\ config_buffer.data.frame_count = 2
    /\ DOMAIN particle_buffer = DOMAIN particle_system
    /\ particle_buffer # particle_system

\* The stage of rank r was dispatched in this frame; a sort of zero steps
\* counts as dispatched when its pipeline was ready.
StageDispatched(r) ==
    \/ \E j \in 1 .. Len(frame_log) : StageRank(frame_log[j].entry_point) = r
    \/ r = 2 /\ SortStepCount(ParticleCount) = 0 /\ "sort" \in pipeline_ready

(***************************************************************************)
(* C26: whatever pipelines are ready, a stage is dispatched in a frame     *)
(* only if every earlier stage of the sequence binner, sort, offset build, *)
(* pre-simulation, simulation was dispatched in that frame.                *)
(***************************************************************************)
C26_StageOnlyAfterEarlierStages ==
    \A i \in 1 .. Len(frame_log) :
        \A r \in 1 .. 5 :
            r < StageRank(frame_log[i].entry_point) => StageDispatched(r)

(***************************************************************************)
(* C28: once setup_particles has run in a frame in which the camera's      *)
(* screen bounds are available, in the first frame or in a later one, the  *)
(* particle population exists, holds particle_count particles, and the     *)
(* bounds are stored in the configuration.                                 *)
(***************************************************************************)
C28_SpawnedOnceBoundsAvailable ==
    phase = "Extract" /\ camera_ready =>
        /\ Cardinality(DOMAIN particle_system) = main_config.particle_count
        /\ main_config.screen_bounds = get_screen_bounds

\* The same for the first frame only, where the run-once flag is still clear.
C28_SpawnedInFirstFrame ==
    phase = "Extract" /\ camera_ready /\ frame = 1 =>
        /\ Cardinality(DOMAIN particle_system) = main_config.particle_count
        /\ main_config.screen_bounds = get_screen_bounds

C27_BuffersCreatedByFirstInvocation ==
    phase = "Queue" /\ extracted /\ frame = 1 => ran /\ pipeline_buffers

\* The range of size_of(SortingParams) bytes bound at dynamic offset 0 lies
\* inside the sort-parameter buffer and a record was written there.
ParamsBindingInsideBuffer ==
    /\ total_iterations(ParticleCount) >= 1
    /\ 0 \in DOMAIN sorting_params_buffer
    /\ 0 + SizeOfSortingParams <= SortingParamsBufferSize(ParticleCount)

(***************************************************************************)
(* C29: for every particle_count >= 1, once the buffers exist the          *)
(* sort-parameter buffer holds at least one record; every dispatch other   *)
(* than a sort step and every draw binds the parameters at dynamic offset  *)
(* 0, and the range of size_of(SortingParams) bytes at that offset lies    *)
(* inside the buffer.                                                      *)
(***************************************************************************)
C29_ParamsBindingInsideBuffer ==
    pipeline_buffers =>
        /\ ParamsBindingInsideBuffer
        /\ \A i \in 1 .. Len(frame_log) :
               ~IsSortDispatch(frame_log[i]) => frame_log[i].dynamic_offset = 0
        /\ \A i \in 1 .. Len(draws) : draws[i].dynamic_offset = 0

\* The same for particle_count >= 2, where the sort has at least one step.
C29_FromTwoParticles ==
    pipeline_buffers /\ ParticleCount >= 2 =>
        /\ ParamsBindingInsideBuffer
        /\ \A i \in 1 .. Len(frame_log) :
               ~IsSortDispatch(frame_log[i]) => frame_log[i].dynamic_offset = 0
        /\ \A i \in 1 .. Len(draws) : draws[i].dynamic_offset = 0

\* Nothing has been recorded in this frame: no pass, no dispatch, no draw.
NothingRecorded ==
    /\ frame_log = <<>>
    /\ draws = <<>>
    /\ open_passes = 0
    /\ pass_dispatches = 0

(***************************************************************************)
(* C30: as long as the GPUPipelineBuffers component does not exist, no     *)
(* pass, dispatch or draw is recorded in any frame, whether or not the     *)
(* ParticleSystem is present in the render world and whatever pipelines    *)
(* are ready; the compute node and the render node each return in one step *)
(* to the next node of the graph, and touch no buffer.                     *)
(***************************************************************************)
C30_NothingRecordedWithoutBuffers ==
    /\ [](~pipeline_buffers => NothingRecorded)
    /\ [][~pipeline_buffers /\ phase = "Compute" =>
            phase' = "Debug" /\ NothingRecorded' /\ BuffersKept]_vars
    /\ [][~pipeline_buffers /\ phase = "Render" =>
            phase' = "FrameEnd" /\ NothingRecorded' /\ BuffersKept]_vars

\* The end of a frame in which the ParticleSystem was in the render world
\* without its buffers while all five compute pipelines were ready.
C30_Witness ==
    /\ phase = "FrameEnd"
    /\ extracted
    /\ ~pipeline_buffers
    /\ pipeline_ready = Stages
    /\ NothingRecorded

\* The least number of groups of `size` that hold `count` items.
CeilDiv(count, size) ==
    CHOOSE w \in 0 .. count : w * size >= count /\ (w = 0 \/ (w - 1) * size < count)

\* The compare pairs of one sort step, numbered from 0.
ComparePairs == Range(0, next_power_of_two(ParticleCount) \div 2)

(***************************************************************************)
(* C31: every dispatch of the binner, the offset build, the predictor and  *)
(* the integrator launches ceil(particle_count / 64) workgroups of 64      *)
(* threads, which are at least particle_count and at most                  *)
(* particle_count + 63 threads, one for every record of the particle       *)
(* buffer; every sort dispatch launches ceil((next_pow2(particle_count)/2) *)
(* / 64) workgroups, with one thread for every compare pair.               *)
(***************************************************************************)
C31_WorkgroupCounts ==
    \A i \in 1 .. Len(frame_log) :
        LET workgroups == frame_log[i].workgroups IN
          IF IsSortDispatch(frame_log[i])
          THEN /\ workgroups = CeilDiv(next_power_of_two(ParticleCount) \div 2, 64)
               /\ workgroups * 64 >= Cardinality(ComparePairs)
               /\ ComparePairs \subseteq Threads(workgroups)
          ELSE /\ workgroups = CeilDiv(ParticleCount, 64)
               /\ workgroups * 64 >= ParticleCount
               /\ workgroups * 64 <= ParticleCount + 63
               /\ DOMAIN particle_buffer \subseteq Threads(workgroups)

\* All dispatches of a frame recorded for 129 particles: three workgroups for
\* each per-particle stage and two for each of the 36 sort steps of 128 pairs.
C31_Witness ==
    /\ phase = "SimEnd"
    /\ ParticleCount = 129
    /\ Len(frame_log) = 40
    /\ frame_log[1].workgroups = 3
    /\ frame_log[2].workgroups = 2
    /\ IsSortDispatch(frame_log[37])
    /\ frame_log[40].entry_point = "simulation_step"
    /\ frame_log[40].workgroups = 3

\* The step is a run of apply_gui_updates.
ApplyRuns ==
    /\ "apply_gui_updates" \notin update_ran
    /\ "apply_gui_updates" \in update_ran'

\* The fields of the simulation configuration that are not tunables:
\* particle_count, screen_bounds, delta_time and frame_count.
FixedFields == DOMAIN main_config \ Tunables

(***************************************************************************)
(* C32: a run of apply_gui_updates with applied_changes set copies each of *)
(* the nine tunables from the GUI values into the simulation configuration,*)
(* clears the flag and changes no other field of the configuration and no  *)
(* GUI value; a run with the flag clear changes neither the configuration  *)
(* nor the GUI resource; and exactly nine fields are tunables.             *)
(***************************************************************************)
C32_ApplyCopiesNineTunables ==
    /\ [](Cardinality(Tunables) = 9 /\ Tunables \subseteq DOMAIN main_config)
    /\ [][ApplyRuns /\ gui_config.applied_changes =>
            /\ \A t \in Tunables : main_config'[t] = gui_config[t]
            /\ \A f \in FixedFields : main_config'[f] = main_config[f]
            /\ gui_config' = [gui_config EXCEPT !.applied_changes = FALSE]]_vars
    /\ [][ApplyRuns /\ ~gui_config.applied_changes =>
            main_config' = main_config /\ gui_config' = gui_config]_vars

\* apply_gui_updates has just copied three dragged sliders, the first and the
\* last of the window among them, that the configuration did not have before.
C32_Witness ==
    /\ "apply_gui_updates" \in update_ran
    /\ ~gui_config.applied_changes
    /\ config_changed
    /\ main_config.fixed_delta_time # InitialTunable("fixed_delta_time")
    /\ main_config.near_density_multiplier # InitialTunable("near_density_multiplier")
    /\ Cardinality({t \in Tunables : main_config[t] # InitialTunable(t)}) = 3
    /\ \A t \in Tunables : main_config[t] = gui_config[t]

\* The step is a run of gui_system.
GuiRuns ==
    /\ "gui_system" \notin update_ran
    /\ "gui_system" \in update_ran'

\* The simulation configuration has the GUI value of every tunable.
ConfigHasGuiValues(sim_config, gui) == \A t \in Tunables : sim_config[t] = gui[t]

(***************************************************************************)
(* C33: a run of gui_system that changes a slider value leaves             *)
(* applied_changes set; once set, the flag stays set over every step that  *)
(* is not a run of apply_gui_updates, further runs of gui_system included; *)
(* the run of apply_gui_updates that finds it set leaves the simulation    *)
(* configuration with the GUI value of all nine tunables and the flag      *)
(* clear; and a run of apply_gui_updates that finds the flag clear, as a   *)
(* second run with no slider change in between does, or finds the          *)
(* configuration already holding the GUI values, leaves the configuration  *)
(* unchanged.                                                              *)
(***************************************************************************)
C33_SliderChangeNeverLost ==
    /\ [][GuiRuns /\ (\E t \in Tunables : gui_config'[t] # gui_config[t]) =>
            gui_config'.applied_changes]_vars
    /\ [][gui_config.applied_changes /\ ~ApplyRuns => gui_config'.applied_changes]_vars
    /\ [][ApplyRuns /\ gui_config.applied_changes =>
            /\ ConfigHasGuiValues(main_config', gui_config')
            /\ ~gui_config'.applied_changes]_vars
    /\ [][ApplyRuns /\ (~gui_config.applied_changes
                          \/ ConfigHasGuiValues(main_config, gui_config)) =>
            main_config' = main_config]_vars

\* Two sliders were dragged in two runs of gui_system, the first after
\* apply_gui_updates had run in frame 1: the flag is still set in frame 2 and
\* the configuration has neither value yet.
C33_Witness ==
    /\ frame = 2
    /\ update_ran = {"gui_system"}
    /\ gui_config.applied_changes
    /\ Cardinality({t \in Tunables : gui_config[t] # InitialTunable(t)}) = 2
    /\ \A t \in Tunables : main_config[t] = InitialTunable(t)

\* The step is an invocation of prepare_particle_buffers.
PrepareRuns == phase = "Prepare" /\ phase' = "Queue"

\* The number of invocations of prepare_particle_buffers so far: one per frame.
PrepareInvocations ==
    IF phase \in {"Update", "Extract", "Prepare"} THEN frame - 1 ELSE frame

(***************************************************************************)
(* C34: every invocation of prepare_particle_buffers after the first adds  *)
(* exactly 1 to frame_count of the render-side configuration and no other  *)
(* step changes it, so it never decreases; and the value in the            *)
(* configuration buffer, once written, is the number of invocations        *)
(* minus 1 above the initial value.                                        *)
(***************************************************************************)
C34_FrameCountCountsInvocations ==
    /\ [][PrepareRuns =>
            config'.frame_count = IF ran THEN config.frame_count + 1
                                  ELSE config.frame_count]_vars
    /\ [][~PrepareRuns => config'.frame_count = config.frame_count]_vars
    /\ [][config'.frame_count >= config.frame_count]_vars
    /\ [](config_buffer.written =>
             /\ PrepareInvocations >= 2
             /\ config_buffer.data.frame_count =
                    InitialConfig(0).frame_count + PrepareInvocations - 1)

\* The third invocation has uploaded a frame_count of 2.
C34_ThirdUpload ==
    /\ frame = 3
    /\ phase = "Queue"
    /\ config_buffer.written
    /\ config_buffer.data.frame_count = 2
====
